---------------------------- MODULE Spec2Model ----------------------------
(***************************************************************************)
(* A model of the Merkle commitment layer (stark/src/merkle.rs) and of the *)
(* component algebra (crypto/stark/src/component/mod.rs) of starkcrypto.   *)
(*                                                                         *)
(* Vectors and slices are sequences; the element the code calls v[i] is    *)
(* At(v, i).  Hashes are terms of a free algebra: the masked Keccak digest *)
(* is modelled as collision free, a leaf hash is <<v>>, a node hash is     *)
(* <<left, right>> and Hash::default() is <<>>.                            *)
(***************************************************************************)
EXTENDS Integers, Sequences, FiniteSets, TLC

VARIABLES
    phase,         \* position of the Merkle session
    leaves,        \* the leaf values handed to make_tree
    tree,          \* the vector returned by make_tree
    indices,       \* the indices handed to proof
    decommitment,  \* the hashes handed to verify
    values,        \* the (index, leaf) pairs handed to verify
    root,          \* the root handed to verify
    depth,         \* the depth handed to verify
    result,        \* what verify did
    origin,        \* how the inputs of verify were obtained
    comp,          \* the component the last operation returned
    compA,         \* the first (or only) component the operation was given
    compB,         \* the second component the operation was given
    call,          \* the operation and its parameters
    steps,         \* the number of operations applied
    ped,           \* the two evaluations of the Pedersen-Merkle composition
    chan,          \* the prover channel and the verifier channel
    nav            \* the tree index the index session is at, and its last call

merkleVars ==
    <<phase, leaves, tree, indices, decommitment, values, root, depth, result, origin>>

componentVars == <<comp, compA, compB, call, steps>>

pedersenVars == <<ped>>

channelVars == <<chan>>

indexVars == <<nav>>

vars == <<merkleVars, componentVars, pedersenVars, channelVars, indexVars>>

----------------------------------------------------------------------------
(* Bounds *)

\* Trees have at most 2^MaxDepth leaves.
MaxDepth == 3
\* At most MaxIndices leaves are opened by one proof.
MaxIndices == 3
\* Leaf values repeat with a period of 1 .. MaxPeriod, or not at all.
MaxPeriod == 2
\* At most MaxSteps component operations are applied in a row.
MaxSteps == 2

----------------------------------------------------------------------------
(* Helpers for 0-indexed vectors *)

At(v, i) == v[i + 1]

Set0(v, i, x) == [v EXCEPT ![i + 1] = x]

\* v[from..to] of Rust: the elements from, ..., to - 1.
Slice(v, from, to) == [k \in 1..(to - from) |-> v[from + k]]

Reverse(v) == [k \in 1..Len(v) |-> v[Len(v) + 1 - k]]

\* 2_usize.pow(n); the trees of the model have at least two leaves, so the
\* exponent depth - 1 of the code is never below zero.
RECURSIVE Pow2(_)
Pow2(n) == IF n <= 0 THEN 1 ELSE 2 * Pow2(n - 1)

RECURSIVE TrailingZeros(_)
TrailingZeros(n) == IF n % 2 = 1 THEN 0 ELSE 1 + TrailingZeros(n \div 2)

IsPowerOfTwo(n) == n >= 1 /\ Pow2(TrailingZeros(n)) = n

----------------------------------------------------------------------------
(* Hashes *)

DefaultHash == <<>>

LeafHash(v) == <<v>>

MerkleNodeHash(left, right) == <<left, right>>

----------------------------------------------------------------------------
(* make_tree_direct *)

\* The first loop: tree[layer1_index + index] for every pair of leaves.
Layer1(lvs, tr, layer1_index) ==
    [k \in 1..Len(tr) |->
        IF k - 1 >= layer1_index /\ k - 1 < layer1_index + Len(lvs) \div 2
        THEN MerkleNodeHash(LeafHash(At(lvs, 2 * (k - 1 - layer1_index))),
                            LeafHash(At(lvs, 2 * (k - 1 - layer1_index) + 1)))
        ELSE tr[k]]

\* UpperLayers with the two children hashed in the wrong order.
RECURSIVE UpperLayersSwapped(_, _)
UpperLayersSwapped(tr, i) ==
    IF i = 0 THEN tr
    ELSE UpperLayersSwapped(
            Set0(tr, i - 1, MerkleNodeHash(At(tr, 2 * (i - 1) + 1), At(tr, 2 * (i - 1)))),
            i - 1)

\* The second loop, for i in (0..2^(depth-1)).rev(): called with i one above.
RECURSIVE UpperLayers(_, _)
UpperLayers(tr, i) ==
    IF i = 0 THEN tr
    ELSE UpperLayers(
            Set0(tr, i - 1, MerkleNodeHash(At(tr, 2 * (i - 1)), At(tr, 2 * (i - 1) + 1))),
            i - 1)

make_tree_direct(lvs) ==
    LET n == Len(lvs)
        d == TrailingZeros(n)
        layer1_index == Pow2(d - 1)
        empty == [k \in 1..n |-> DefaultHash]
    IN  UpperLayers(Layer1(lvs, empty, layer1_index), Pow2(d - 1))

\* make_tree_threaded: the layers from the leaves up, then a default hash
\* for index 0, flattened from the top layer down.
PairUp(layer) ==
    [k \in 1..(Len(layer) \div 2) |-> MerkleNodeHash(layer[2 * k - 1], layer[2 * k])]

RECURSIVE ThreadedLayers(_, _, _)
ThreadedLayers(acc, layer, i) ==
    IF i < 1 THEN acc
    ELSE ThreadedLayers(PairUp(layer) \o acc, PairUp(layer), i - 1)

make_tree_threaded(lvs) ==
    LET d == TrailingZeros(Len(lvs))
        hold == PairUp([k \in 1..Len(lvs) |-> LeafHash(lvs[k])])
    IN  <<DefaultHash>> \o ThreadedLayers(hold, hold, d - 1)

\* The leaf count from which make_tree builds the tree in parallel.
ThreadedThreshold == 256

make_tree(lvs) ==
    IF Len(lvs) < ThreadedThreshold THEN make_tree_direct(lvs) ELSE make_tree_threaded(lvs)

----------------------------------------------------------------------------
(* proof *)

\* The hash the code reads for tree node `node`: a leaf's from the source,
\* an inner node's from the tree vector.
SourceLeafHash(source, index) == LeafHash(At(source, index))

\* ProofLeafStep without the look-ahead that leaves out the sibling of a
\* requested pair.
ProofLeafStepNoPeek(st, idxs, k, num_leaves, source) ==
    LET index == idxs[k]
        at == num_leaves + (index % num_leaves)
        sib == IF index % 2 = 0 THEN index + 1 ELSE index - 1
    IN  [st EXCEPT !.known = [@ EXCEPT ![at] = TRUE, ![num_leaves + sib] = TRUE],
                   !.decommitment = Append(@, SourceLeafHash(source, sib)),
                   !.nodes = Append(@, num_leaves + sib)]

\* One iteration of the loop over the indices (lines 110-132); st carries
\* known, decommitment, excluded_pair and the nodes the hashes belong to.
ProofLeafStep(st, idxs, k, num_leaves, source) ==
    LET index == idxs[k]
        at == num_leaves + (index % num_leaves)
        hasNext == k < Len(idxs)
    IN  IF index % 2 = 0
        THEN IF hasNext /\ idxs[k + 1] = index + 1
             THEN [st EXCEPT !.known = [@ EXCEPT ![at] = TRUE, ![at + 1] = TRUE],
                             !.excluded_pair = TRUE]
             ELSE [st EXCEPT !.known = [@ EXCEPT ![at] = TRUE, ![at + 1] = TRUE],
                             !.decommitment = Append(@, SourceLeafHash(source, index + 1)),
                             !.nodes = Append(@, num_leaves + index + 1)]
        ELSE IF st.excluded_pair
             THEN [st EXCEPT !.known = [@ EXCEPT ![at] = TRUE, ![at - 1] = TRUE],
                             !.excluded_pair = FALSE]
             ELSE [st EXCEPT !.known = [@ EXCEPT ![at] = TRUE, ![at - 1] = TRUE],
                             !.decommitment = Append(@, SourceLeafHash(source, index - 1)),
                             !.nodes = Append(@, num_leaves + index - 1)]

RECURSIVE ProofLeafLoop(_, _, _, _, _)
ProofLeafLoop(st, idxs, k, num_leaves, source) ==
    IF k > Len(idxs) THEN st
    ELSE ProofLeafLoop(ProofLeafStep(st, idxs, k, num_leaves, source),
                       idxs, k + 1, num_leaves, source)

\* Lines 134-138: known[i] = known[2i] || known[2i+1] above the leaves.
ProofLayer1(st, d) ==
    [st EXCEPT !.known =
        [i \in DOMAIN @ |->
            IF i >= Pow2(d - 1) /\ i < Pow2(d) THEN @[2 * i] \/ @[2 * i + 1] ELSE @[i]]]

\* One node i of the loops of lines 140-152.
ProofUpperStep(st, tr, i) ==
    LET left == st.known[2 * i]
        right == st.known[2 * i + 1]
        st1 == IF left /\ ~right
               THEN [st EXCEPT !.decommitment = Append(@, At(tr, 2 * i + 1)),
                               !.nodes = Append(@, 2 * i + 1)]
               ELSE st
        st2 == IF ~left /\ right
               THEN [st1 EXCEPT !.decommitment = Append(@, At(tr, 2 * i)),
                                !.nodes = Append(@, 2 * i)]
               ELSE st1
    IN  [st2 EXCEPT !.known[i] = left \/ right]

\* for i in 2^(d-1) .. 2^d
RECURSIVE ProofUpperRow(_, _, _, _)
ProofUpperRow(st, tr, i, d) ==
    IF i >= Pow2(d) THEN st
    ELSE ProofUpperRow(ProofUpperStep(st, tr, i), tr, i + 1, d)

\* for d in (1..depth).rev()
RECURSIVE ProofUpperLoop(_, _, _)
ProofUpperLoop(st, tr, d) ==
    IF d < 1 THEN st
    ELSE ProofUpperLoop(ProofUpperRow(st, tr, Pow2(d - 1), d), tr, d - 1)

ProofWalk(tr, idxs, source) ==
    LET d == TrailingZeros(Len(tr))
        num_leaves == Pow2(d)
        num_nodes == 2 * num_leaves
        st0 == [known |-> [i \in 0..num_nodes |-> FALSE],
                decommitment |-> <<>>,
                nodes |-> <<>>,
                excluded_pair |-> FALSE]
        st1 == ProofLeafLoop(st0, idxs, 1, num_leaves, source)
        st2 == ProofLayer1(st1, d)
    IN  ProofUpperLoop(st2, tr, d - 1)

proof(tr, idxs, source) == ProofWalk(tr, idxs, source).decommitment

----------------------------------------------------------------------------
(* decommitment_size *)

\* One iteration of the loop of lines 165-188.
SizeLeafStep(st, idxs, k, num_leaves) ==
    LET index == idxs[k]
        at == num_leaves + (index % num_leaves)
        hasNext == k < Len(idxs)
    IN  IF index % 2 = 0
        THEN IF hasNext /\ idxs[k + 1] = index + 1
             THEN [st EXCEPT !.known = [@ EXCEPT ![at] = TRUE, ![at + 1] = TRUE],
                             !.excluded_pair = TRUE]
             ELSE [st EXCEPT !.known = [@ EXCEPT ![at] = TRUE, ![at + 1] = TRUE],
                             !.total = @ + 1]
        ELSE IF st.excluded_pair
             THEN [st EXCEPT !.known = [@ EXCEPT ![at] = TRUE, ![at - 1] = TRUE],
                             !.excluded_pair = FALSE]
             ELSE [st EXCEPT !.known = [@ EXCEPT ![at] = TRUE, ![at - 1] = TRUE],
                             !.total = @ + 1]

RECURSIVE SizeLeafLoop(_, _, _, _)
SizeLeafLoop(st, idxs, k, num_leaves) ==
    IF k > Len(idxs) THEN st
    ELSE SizeLeafLoop(SizeLeafStep(st, idxs, k, num_leaves), idxs, k + 1, num_leaves)

\* Lines 190-194.
SizeLayer1(st, d) ==
    [st EXCEPT !.known =
        [i \in DOMAIN @ |->
            IF i >= Pow2(d - 1) /\ i < Pow2(d) THEN @[2 * i] \/ @[2 * i + 1] ELSE @[i]]]

\* SizeUpperStep without the count of a missing left sibling.
SizeUpperStepRightOnly(st, i) ==
    LET left == st.known[2 * i]
        right == st.known[2 * i + 1]
        st1 == IF left /\ ~right THEN [st EXCEPT !.total = @ + 1] ELSE st
    IN  [st1 EXCEPT !.known[i] = left \/ right]

\* One node i of the loops of lines 196-208.
SizeUpperStep(st, i) ==
    LET left == st.known[2 * i]
        right == st.known[2 * i + 1]
        st1 == IF left /\ ~right THEN [st EXCEPT !.total = @ + 1] ELSE st
        st2 == IF ~left /\ right THEN [st1 EXCEPT !.total = @ + 1] ELSE st1
    IN  [st2 EXCEPT !.known[i] = left \/ right]

RECURSIVE SizeUpperRow(_, _, _)
SizeUpperRow(st, i, d) ==
    IF i >= Pow2(d) THEN st
    ELSE SizeUpperRow(SizeUpperStep(st, i), i + 1, d)

RECURSIVE SizeUpperLoop(_, _)
SizeUpperLoop(st, d) ==
    IF d < 1 THEN st
    ELSE SizeUpperLoop(SizeUpperRow(st, Pow2(d - 1), d), d - 1)

decommitment_size(idxs, data_size) ==
    LET d == TrailingZeros(data_size)
        num_leaves == Pow2(d)
        num_nodes == 2 * num_leaves
        st0 == [known |-> [i \in 0..num_nodes |-> FALSE],
                total |-> 0,
                excluded_pair |-> FALSE]
        st1 == SizeLeafLoop(st0, idxs, 1, num_leaves)
        st2 == SizeLayer1(st1, d)
    IN  SizeUpperLoop(st2, d - 1).total

----------------------------------------------------------------------------
(* verify *)

\* What a call of verify does: it returns true ("accept") or false
\* ("reject"), or it panics.  asserts tells whether every debug_assert it
\* passed held (a build with debug assertions panics where one does not),
\* layers whether those at the end of a layer (line 276) held.
Panic(why) ==
    [outcome |-> "panic", why |-> why, asserts |-> TRUE, layers |-> TRUE, consumed |-> 0]

\* The loop of lines 220-229 over values.iter().rev(); k is the position of
\* the leaf in values, counted from one.
RECURSIVE LeafQueue(_, _, _, _, _, _)
LeafQueue(queue, previous_index, vals, k, d, dec) ==
    IF k < 1 THEN queue
    ELSE LET leaf == vals[k]
             entry == [index |-> Pow2(d) + leaf[1], hash |-> LeafHash(leaf[2])]
         IN  IF leaf[1] % 2 = 1 \/ previous_index # leaf[1] + 1
             THEN LeafQueue(Append(queue, entry), leaf[1], vals, k - 1, d, dec)
             ELSE IF ~(\E j \in 1..Len(dec) : dec[j] = LeafHash(leaf[2]))
                  THEN LeafQueue(Append(queue, entry), previous_index, vals, k - 1, d, dec)
                  ELSE LeafQueue(queue, previous_index, vals, k - 1, d, dec)

\* count_pairs of a non-empty domain: the positions whose entry is a right
\* node followed by its left sibling.
count_pairs(domain) ==
    SelectSeq([k \in 1..(Len(domain) - 1) |-> k - 1],
              LAMBDA index : /\ At(domain, index).index % 2 = 1
                             /\ At(domain, index).index - 1 = At(domain, index + 1).index)

\* The while loop of lines 251-275; iter is decommitment_iter.
RECURSIVE VerifyRow(_, _, _, _, _, _)
VerifyRow(queue, pairs, index, pair_index, iter, new_queue) ==
    IF index >= Len(queue)
    THEN [panic |-> FALSE, new_queue |-> new_queue, iter |-> iter]
    ELSE IF Len(pairs) > pair_index /\ index = At(pairs, pair_index)
    THEN VerifyRow(queue, pairs, index + 2, pair_index + 1, iter,
                   Append(new_queue,
                          [index |-> At(queue, index).index \div 2,
                           hash |-> MerkleNodeHash(At(queue, index + 1).hash,
                                                   At(queue, index).hash)]))
    ELSE IF iter = <<>>
    THEN [panic |-> TRUE, new_queue |-> new_queue, iter |-> iter]
    ELSE LET other_hash == Head(iter)
             node == IF At(queue, index).index % 2 = 0
                     THEN MerkleNodeHash(At(queue, index).hash, other_hash)
                     ELSE MerkleNodeHash(other_hash, At(queue, index).hash)
         IN  VerifyRow(queue, pairs, index + 1, pair_index, Tail(iter),
                       Append(new_queue,
                              [index |-> At(queue, index).index \div 2, hash |-> node]))

\* RootCheck without the comparison.
RootCheckAlways(hash, rt) == "accept"

\* Line 236: the returned comparison.
RootCheck(hash, rt) == IF hash = rt THEN "accept" ELSE "reject"

\* The loop of lines 233-278.
RECURSIVE VerifyLoop(_, _, _, _, _, _)
VerifyLoop(queue, consumed, iter, rt, dec, asserts) ==
    IF Len(queue) = 1 /\ At(queue, 0).index = 1
    THEN [outcome |-> RootCheck(At(queue, 0).hash, rt), why |-> "none",
          asserts |-> asserts /\ Len(dec) = consumed, layers |-> asserts,
          consumed |-> consumed]
    ELSE IF queue = <<>>
    THEN Panic("count_pairs: index out of bounds")
    ELSE LET pairs == count_pairs(queue)
             need == Len(queue) - 2 * Len(pairs)
             take == consumed < Len(dec)
         IN  IF take /\ consumed + need > Len(dec)
             THEN Panic("slice index out of range")
             ELSE LET iter1 == IF take
                               THEN Reverse(Slice(dec, consumed, consumed + need))
                               ELSE iter
                      consumed1 == IF take THEN consumed + need ELSE consumed
                      row == VerifyRow(queue, pairs, 0, 0, iter1, <<>>)
                  IN  IF row.panic
                      THEN Panic("Bad decommitment")
                      ELSE VerifyLoop(row.new_queue, consumed1, row.iter, rt, dec,
                                      asserts /\ row.iter = <<>>)

verify(rt, d, vals, dec) ==
    VerifyLoop(LeafQueue(<<>>, 0, vals, Len(vals), d, dec), 0, <<>>, rt, dec, TRUE)

----------------------------------------------------------------------------
(* The Merkle session: a tree is built, a proof is made for some indices,  *)
(* the verifier's inputs are left as they are or tampered with, or forged  *)
(* outright, and verify is called.                                         *)

NoResult ==
    [outcome |-> "none", why |-> "none", asserts |-> TRUE, layers |-> TRUE, consumed |-> 0]

\* The leaf lists of n leaves: all different, or repeating with a period.
LeafLists(n) ==
    {[i \in 1..n |-> ((i - 1) % m) + 1] : m \in (1..MaxPeriod) \cup {n}}

RECURSIVE SortedSeq(_)
SortedSeq(S) ==
    IF S = {} THEN <<>>
    ELSE LET m == CHOOSE x \in S : \A y \in S : x <= y
         IN  <<m>> \o SortedSeq(S \ {m})

\* The sorted duplicate-free index lists over n leaves.
IndexLists(n) ==
    {SortedSeq(S) : S \in {T \in SUBSET (0..(n - 1)) : Cardinality(T) <= MaxIndices}}

\* Roots a verifier may be handed.
RootCandidates ==
    {DefaultHash, LeafHash(1), MerkleNodeHash(LeafHash(1), LeafHash(1)),
     MerkleNodeHash(LeafHash(1), DefaultHash)}
    \cup (IF tree = <<>> THEN {} ELSE {At(tree, 0), At(tree, 1)})

\* Hashes an adversary may put into a decommitment.
ForgedHashes == {DefaultHash, LeafHash(1)}

\* Leaves an adversary may claim: (index, value) with the index possibly
\* beyond the 2^depth leaves.
ForgedLeaves == {<<i, 1>> : i \in 0..2}

ForgedValues ==
    {<<>>} \cup {<<a>> : a \in ForgedLeaves} \cup {<<a, b>> : a, b \in ForgedLeaves}

ForgedDecommitments ==
    {<<>>} \cup {<<a>> : a \in ForgedHashes} \cup {<<a, b>> : a, b \in ForgedHashes}

InitMerkle ==
    /\ phase = "start"
    /\ leaves = <<>>
    /\ tree = <<>>
    /\ indices = <<>>
    /\ decommitment = <<>>
    /\ values = <<>>
    /\ root = DefaultHash
    /\ depth = 0
    /\ result = NoResult
    /\ origin = "none"

MakeTree ==
    /\ phase = "start"
    /\ \E d \in 1..MaxDepth : \E lvs \in LeafLists(Pow2(d)) :
          /\ leaves' = lvs
          /\ tree' = make_tree(lvs)
    /\ phase' = "built"
    /\ UNCHANGED <<indices, decommitment, values, root, depth, result, origin>>
    /\ UNCHANGED <<componentVars, pedersenVars, channelVars, indexVars>>

Proof ==
    /\ phase = "built"
    /\ \E idxs \in IndexLists(Len(leaves)) :
          /\ indices' = idxs
          /\ decommitment' = proof(tree, idxs, leaves)
          /\ values' = [k \in 1..Len(idxs) |-> <<idxs[k], At(leaves, idxs[k])>>]
    /\ root' = At(tree, 1)
    /\ depth' = TrailingZeros(Len(leaves))
    /\ origin' = "honest"
    /\ phase' = "proved"
    /\ UNCHANGED <<leaves, tree, result>>
    /\ UNCHANGED <<componentVars, pedersenVars, channelVars, indexVars>>

TamperRoot ==
    /\ phase = "proved" /\ origin = "honest"
    /\ \E r \in RootCandidates \ {root} : root' = r
    /\ origin' = "root"
    /\ UNCHANGED <<phase, leaves, tree, indices, decommitment, values, depth, result>>
    /\ UNCHANGED <<componentVars, pedersenVars, channelVars, indexVars>>

TruncateDecommitment ==
    /\ phase = "proved" /\ origin = "honest"
    /\ \E k \in 0..(Len(decommitment) - 1) : decommitment' = SubSeq(decommitment, 1, k)
    /\ origin' = "short"
    /\ UNCHANGED <<phase, leaves, tree, indices, values, root, depth, result>>
    /\ UNCHANGED <<componentVars, pedersenVars, channelVars, indexVars>>

ExtendDecommitment ==
    /\ phase = "proved" /\ origin = "honest"
    /\ \E h \in ForgedHashes : decommitment' = Append(decommitment, h)
    /\ origin' = "long"
    /\ UNCHANGED <<phase, leaves, tree, indices, values, root, depth, result>>
    /\ UNCHANGED <<componentVars, pedersenVars, channelVars, indexVars>>

TamperValues ==
    /\ phase = "proved" /\ origin = "honest"
    /\ \/ values' = Reverse(values) /\ Len(values) > 1
       \/ values' = values \o values /\ Len(values) > 0
       \/ values' = [k \in 1..Len(values) |-> <<values[k][1] + Len(leaves), values[k][2]>>]
          /\ Len(values) > 0
       \/ values' = [k \in 1..Len(values) |-> <<values[k][1], values[k][2] + 1>>]
          /\ Len(values) > 0
    /\ origin' = "values"
    /\ UNCHANGED <<phase, leaves, tree, indices, decommitment, root, depth, result>>
    /\ UNCHANGED <<componentVars, pedersenVars, channelVars, indexVars>>

Forge ==
    /\ phase = "start"
    /\ \E d \in 0..1 : depth' = d
    /\ \E vals \in ForgedValues : values' = vals
    /\ \E dec \in ForgedDecommitments : decommitment' = dec
    /\ \E r \in RootCandidates : root' = r
    /\ origin' = "forged"
    /\ phase' = "proved"
    /\ UNCHANGED <<leaves, tree, indices, result>>
    /\ UNCHANGED <<componentVars, pedersenVars, channelVars, indexVars>>

\* dec with hash h put in after its first p hashes.
InsertHash(dec, p, h) == SubSeq(dec, 1, p) \o <<h>> \o SubSeq(dec, p + 1, Len(dec))

\* The adversary claims, for the left leaf of a requested pair, the value
\* of another leaf whose hash the decommitment carries, and puts the hash of
\* the leaf it replaced into the decommitment (or leaves the decommitment
\* as it is).
SubstituteLeaf ==
    /\ phase = "proved" /\ origin = "honest"
    /\ \E k \in 1..(Len(values) - 1) : \E j \in 1..Len(leaves) :
          /\ values[k][1] % 2 = 0
          /\ values[k + 1][1] = values[k][1] + 1
          /\ leaves[j] # values[k][2]
          /\ \A i \in 1..(j - 1) : leaves[i] # leaves[j]
          /\ \E q \in 1..Len(decommitment) : decommitment[q] = LeafHash(leaves[j])
          /\ values' = [values EXCEPT ![k] = <<@[1], leaves[j]>>]
          /\ \/ decommitment' = decommitment
             \/ \E p \in 0..Len(decommitment) :
                   decommitment' = InsertHash(decommitment, p, LeafHash(values[k][2]))
    /\ origin' = "substituted"
    /\ UNCHANGED <<phase, leaves, tree, indices, root, depth, result>>
    /\ UNCHANGED <<componentVars, pedersenVars, channelVars, indexVars>>

Verify ==
    /\ phase = "proved"
    /\ result' = verify(root, depth, values, decommitment)
    /\ phase' = "done"
    /\ UNCHANGED <<leaves, tree, indices, decommitment, values, root, depth, origin>>
    /\ UNCHANGED <<componentVars, pedersenVars, channelVars, indexVars>>

NextMerkle ==
    \/ MakeTree
    \/ Proof
    \/ TamperRoot
    \/ TruncateDecommitment
    \/ ExtendDecommitment
    \/ TamperValues
    \/ SubstituteLeaf
    \/ Forge
    \/ Verify

----------------------------------------------------------------------------
(* Properties of the Merkle layer *)

\* The hash of tree node `node` in the 1-indexed breadth-first numbering in
\* which leaf i of n leaves is node n + i, computed from the leaves alone.
RECURSIVE SubtreeHash(_, _, _)
SubtreeHash(lvs, n, node) ==
    IF node >= n THEN LeafHash(At(lvs, node - n))
    ELSE MerkleNodeHash(SubtreeHash(lvs, n, 2 * node), SubtreeHash(lvs, n, 2 * node + 1))

\* node lies on the path from a requested leaf to the root.
RECURSIVE Ancestor(_, _)
Ancestor(node, leaf) ==
    IF leaf < node THEN FALSE
    ELSE IF leaf = node THEN TRUE
    ELSE Ancestor(node, leaf \div 2)

OnPath(node, idxs, n) == \E k \in 1..Len(idxs) : Ancestor(node, n + idxs[k])

SiblingOf(node) == IF node % 2 = 0 THEN node + 1 ELSE node - 1

\* The nodes off every path whose sibling is on one.
NeededNodes(idxs, n) ==
    {node \in 2..(2 * n - 1) : ~OnPath(node, idxs, n) /\ OnPath(SiblingOf(node), idxs, n)}

Honest == origin = "honest" /\ phase \in {"proved", "done"}

\* C1: verify accepts the proof made for any sorted duplicate-free index
\* list over any leaves, repeated leaf values included.
C1_Completeness ==
    (phase = "done" /\ origin = "honest") => result.outcome = "accept"

\* C2: decommitment_size(indices, N) is the length of proof(tree, indices,
\* source) for every sorted duplicate-free index list.
C2_DecommitmentSize ==
    Honest => decommitment_size(indices, Len(leaves)) = Len(decommitment)

C2_Witness ==
    /\ Honest
    /\ Len(leaves) = 8
    /\ indices = <<2, 3, 5>>
    /\ Len(decommitment) = 3
    /\ decommitment_size(indices, 8) = 3

\* C3: for fixed depth, values and decommitment verify accepts at most one
\* root: once it accepts root r it returns false for every other root.
C3_UniqueRoot ==
    (phase = "done" /\ result.outcome = "accept") =>
        \A r \in RootCandidates \ {root} :
            verify(r, depth, values, decommitment).outcome = "reject"

C3_Witness ==
    /\ phase = "done"
    /\ result.outcome = "accept"
    /\ Len(values) >= 2
    /\ Cardinality(RootCandidates \ {root}) >= 4

\* C4: the decommitment holds exactly one hash for every node that is off
\* the paths from the requested leaves to the root and whose sibling is on
\* one, and nothing else: a requested pair 2k, 2k+1 contributes no leaf
\* hash and a single leaf yields log2(N) hashes.
C4_Minimal ==
    Honest =>
        LET n == Len(leaves)
            nodes == ProofWalk(tree, indices, leaves).nodes
        IN  /\ Len(nodes) = Len(decommitment)
            /\ {nodes[k] : k \in 1..Len(nodes)} = NeededNodes(indices, n)
            /\ Len(nodes) = Cardinality(NeededNodes(indices, n))
            /\ \A k \in 1..Len(nodes) : decommitment[k] = SubtreeHash(leaves, n, nodes[k])
            /\ \A a, b \in 1..Len(indices) :
                  (indices[a] % 2 = 0 /\ indices[b] = indices[a] + 1) =>
                      \A k \in 1..Len(nodes) :
                          nodes[k] \notin {n + indices[a], n + indices[b]}
            /\ Len(indices) = 1 => Len(decommitment) = TrailingZeros(n)

C4_Witness ==
    /\ Honest
    /\ Len(leaves) = 8
    /\ indices = <<0, 1, 6>>
    /\ ProofWalk(tree, indices, leaves).nodes = <<15, 5, 6>>

\* C5: verify never aborts: whatever root, depth, values and decommitment
\* it is given it returns true or false, with no panic and no failed
\* assertion.
C5_NeverAborts ==
    phase = "done" => (result.outcome \in {"accept", "reject"} /\ result.asserts)

\* C6: with fewer hashes than the reconstruction needs verify reports
\* NotEnoughHashes; it neither accepts nor aborts.
C6_NotEnoughHashes ==
    (/\ phase = "done"
     /\ origin = "short"
     /\ verify(root, depth, values, proof(tree, indices, leaves)).outcome = "accept")
        => result.outcome = "NotEnoughHashes"

\* C7: the tree of N leaves holds 2N-1 hashes breadth-first from index 1,
\* index 0 unused, the root at index 1 and the hash of leaf i at index N+i.
C7_TreeLayout ==
    phase = "built" =>
        LET n == Len(leaves)
        IN  /\ Len(tree) = 2 * n
            /\ At(tree, 1) = SubtreeHash(leaves, n, 1)
            /\ \A i \in 0..(n - 1) : At(tree, n + i) = LeafHash(At(leaves, i))

\* C7 as amended: the vector has N entries; indices 1 .. N-1 hold the
\* hashes of the inner nodes breadth-first (the children of node k are
\* nodes 2k and 2k+1, leaf i being the node N+i, which is not stored),
\* the root is at index 1, and index 0 holds the hash of no node.
C7_TreeLayoutAmended ==
    phase = "built" =>
        LET n == Len(leaves)
        IN  /\ Len(tree) = n
            /\ \A k \in 1..(n - 1) : At(tree, k) = SubtreeHash(leaves, n, k)
            /\ \A i \in 0..(n - 1) :
                  \A k \in 0..(n - 1) : At(tree, k) # LeafHash(At(leaves, i))
            /\ \A k \in 1..(2 * n - 1) : At(tree, 0) # SubtreeHash(leaves, n, k)

C7_Witness ==
    /\ phase = "built"
    /\ leaves = <<1, 2, 3, 4, 5, 6, 7, 8>>
    /\ Len(tree) = 8
    /\ At(tree, 4) = MerkleNodeHash(LeafHash(1), LeafHash(2))

----------------------------------------------------------------------------
(* Field elements: the residues of a small prime with 2-power roots of     *)
(* unity stand for the 252-bit field.                                      *)

FieldModulus == 17

\* A generator of the multiplicative group.
FieldGenerator == 3

FieldElements == 0..(FieldModulus - 1)

FAdd(a, b) == (a + b) % FieldModulus

FSub(a, b) == (a - b) % FieldModulus

FMul(a, b) == (a * b) % FieldModulus

FNeg(a) == (0 - a) % FieldModulus

RECURSIVE FPowNat(_, _)
FPowNat(a, e) ==
    IF e = 0 THEN 1
    ELSE IF e % 2 = 0 THEN FPowNat(FMul(a, a), e \div 2)
    ELSE FMul(a, FPowNat(a, e - 1))

FInv(a) == FPowNat(a, FieldModulus - 2)

\* pow with a signed exponent.
FPow(a, e) == IF e >= 0 THEN FPowNat(a, e) ELSE FPowNat(FInv(a), 0 - e)

\* FieldElement::root(n): the generator of the subgroup of order n.
HasRoot(n) == n >= 1 /\ (FieldModulus - 1) % n = 0

Root(n) == FPowNat(FieldGenerator, (FieldModulus - 1) \div n)

\* The longest trace the field has a domain for.
MaxRows == FieldModulus - 1

----------------------------------------------------------------------------
(* Rational expressions *)

X == [op |-> "X"]

Constant(c) == [op |-> "Constant", value |-> c]

Trace(column, offset) == [op |-> "Trace", column |-> column, offset |-> offset]

Add(a, b) == [op |-> "Add", a |-> a, b |-> b]

Sub(a, b) == [op |-> "Sub", a |-> a, b |-> b]

Mul(a, b) == [op |-> "Mul", a |-> a, b |-> b]

Neg(a) == [op |-> "Neg", arg |-> a]

Pow(a, e) == [op |-> "Pow", base |-> a, exponent |-> e]

Inv(a) == [op |-> "Inv", arg |-> a]

\* a / b
Div(a, b) == Mul(a, Inv(b))

\* The closures handed to project_into as `expr_map`, as data.
IdentityMap == [kind |-> "identity"]

\* The expressions left reading the old columns.
PermuteMapUnmoved(permutation) == [kind |-> "identity"]

PermuteMap(permutation) == [kind |-> "permute", permutation |-> permutation]

ShiftMap(factor) == [kind |-> "shift", factor |-> factor]

FoldMap == [kind |-> "fold"]

\* The right component's expressions left where they were.
RightMapUnmoved(columns) == [kind |-> "identity"]

RightMap(columns) == [kind |-> "right", columns |-> columns]

SquareMap == [kind |-> "square"]

ApplyExprMap(m, e) ==
    CASE m.kind = "permute" /\ e.op = "Trace" ->
            Trace(At(m.permutation, e.column), e.offset)
      [] m.kind = "shift" /\ e.op = "X" -> Mul(Constant(m.factor), X)
      [] m.kind = "fold" /\ e.op = "Trace" ->
            Trace(e.column \div 2, 2 * e.offset + (e.column % 2))
      [] m.kind = "right" /\ e.op = "Trace" -> Trace(e.column + m.columns, e.offset)
      [] m.kind = "square" /\ e.op = "X" -> Pow(X, 2)
      [] OTHER -> e

\* RationalExpression::map: the operands first, then the node itself.
RECURSIVE Map(_, _)
Map(e, m) ==
    ApplyExprMap(m,
        CASE e.op \in {"Add", "Sub", "Mul"} -> [e EXCEPT !.a = Map(@, m), !.b = Map(@, m)]
          [] e.op \in {"Neg", "Inv"} -> [e EXCEPT !.arg = Map(@, m)]
          [] e.op = "Pow" -> [e EXCEPT !.base = Map(@, m)]
          [] OTHER -> e)

\* The columns an expression reads.
RECURSIVE Columns(_)
Columns(e) ==
    CASE e.op \in {"Add", "Sub", "Mul"} -> Columns(e.a) \cup Columns(e.b)
      [] e.op \in {"Neg", "Inv"} -> Columns(e.arg)
      [] e.op = "Pow" -> Columns(e.base)
      [] e.op = "Trace" -> {e.column}
      [] OTHER -> {}

----------------------------------------------------------------------------
(* Components *)

index_rotate(len, index, offset) == (index + offset) % len

Cells(rows, cols) == (0..(rows - 1)) \X (0..(cols - 1))

NoLabels == [name \in {} |-> [row |-> 0, expr |-> X]]

\* FixedComponent::empty: a zero trace, no constraints, no labels.
Empty(rows, cols) ==
    [rows |-> rows, cols |-> cols,
     trace |-> [cell \in Cells(rows, cols) |-> 0],
     constraints |-> <<>>,
     labels |-> NoLabels]

\* The closures handed to project_into as `transform`, as data.
IdentityAt == [kind |-> "identity"]

PermuteAt(permutation) == [kind |-> "permute", permutation |-> permutation]

ShiftAt(amount_abs, rows) == [kind |-> "shift", amount |-> amount_abs, rows |-> rows]

\* A closure for fold that leaves every cell where it is.
FoldAtUnmoved == [kind |-> "identity"]

FoldAt == [kind |-> "fold"]

RightAt(columns) == [kind |-> "right", columns |-> columns]

BottomAt(rows) == [kind |-> "bottom", rows |-> rows]

Transform(t, i, j) ==
    CASE t.kind = "permute" -> <<i, At(t.permutation, j)>>
      [] t.kind = "shift" -> <<(i + t.amount) % t.rows, j>>
      [] t.kind = "fold" -> <<2 * i + (j % 2), j \div 2>>
      [] t.kind = "right" -> <<i, j + t.columns>>
      [] t.kind = "bottom" -> <<i + t.rows, j>>
      [] OTHER -> <<i, j>>

\* HashMap::extend: the entries of `more` replace those of `labels`.
Extend(labels, more) ==
    [name \in DOMAIN labels \cup DOMAIN more |->
        IF name \in DOMAIN more THEN more[name] ELSE labels[name]]

\* The cell written last to `cell`: the loops run over i, then over j.
LastWriter(self, t, cell) ==
    LET from == {q \in DOMAIN self.trace : Transform(t, q[1], q[2]) = cell}
    IN  CHOOSE q \in from :
            \A r \in from : r[1] < q[1] \/ (r[1] = q[1] /\ r[2] <= q[2])

\* FixedComponent::project_into: copy the trace cells to their transformed
\* places, append the mapped constraints, add the mapped labels.
project_into(self, target, t, m) ==
    [target EXCEPT
        !.trace = [cell \in DOMAIN @ |->
                      IF \E q \in DOMAIN self.trace : Transform(t, q[1], q[2]) = cell
                      THEN self.trace[LastWriter(self, t, cell)]
                      ELSE @[cell]],
        !.constraints = @ \o [k \in 1..Len(self.constraints) |-> Map(self.constraints[k], m)],
        !.labels = Extend(@, [name \in DOMAIN self.labels |->
                                 [row |-> self.labels[name].row,
                                  expr |-> Map(self.labels[name].expr, m)]])]

\* The value of an expression on a row of the trace domain.
RECURSIVE EvalRow(_, _, _)
EvalRow(c, row, e) ==
    CASE e.op = "X" -> FPowNat(Root(c.rows), row)
      [] e.op = "Constant" -> e.value
      [] e.op = "Trace" -> c.trace[<<index_rotate(c.rows, row, e.offset), e.column>>]
      [] e.op = "Add" -> FAdd(EvalRow(c, row, e.a), EvalRow(c, row, e.b))
      [] e.op = "Sub" -> FSub(EvalRow(c, row, e.a), EvalRow(c, row, e.b))
      [] e.op = "Mul" -> FMul(EvalRow(c, row, e.a), EvalRow(c, row, e.b))
      [] e.op = "Neg" -> FNeg(EvalRow(c, row, e.arg))
      [] e.op = "Pow" -> FPowNat(EvalRow(c, row, e.base), e.exponent)
      [] e.op = "Inv" -> FInv(EvalRow(c, row, e.arg))

eval_label(c, name) == EvalRow(c, c.labels[name].row, c.labels[name].expr)

\* A constraint is a quotient; one that is not written as a quotient has
\* the denominator 1.
Numerator(e) ==
    IF e.op = "Mul" THEN (IF e.b.op = "Inv" THEN e.a ELSE e) ELSE e

Denominator(e) ==
    IF e.op = "Mul" THEN (IF e.b.op = "Inv" THEN e.b.arg ELSE Constant(1))
    ELSE Constant(1)

\* Component.check: every constraint evaluates to zero on the trace domain,
\* that is, on every row where its denominator vanishes its numerator
\* vanishes; and every label evaluates to a value of the trace: it names a
\* row of the trace and reads columns of the trace.
check(c) ==
    /\ \A k \in 1..Len(c.constraints) :
          /\ \A col \in Columns(c.constraints[k]) : col < c.cols
          /\ \A row \in 0..(c.rows - 1) :
                EvalRow(c, row, Denominator(c.constraints[k])) = 0
                    => EvalRow(c, row, Numerator(c.constraints[k])) = 0
    /\ \A name \in DOMAIN c.labels :
          /\ c.labels[name].row < c.rows
          /\ \A col \in Columns(c.labels[name].expr) : col < c.cols

\* The labels under new names: format!("<prefix>{}", key).
Prefixed(labels, prefix) ==
    [name \in {<<prefix>> \o key : key \in DOMAIN labels} |-> labels[Tail(name)]]

WithLabels(c, labels) == [c EXCEPT !.labels = labels]

WithRows(labels, F(_)) ==
    [name \in DOMAIN labels |-> [labels[name] EXCEPT !.row = F(@)]]

----------------------------------------------------------------------------
(* The operations of the component algebra.  Each is defined where its     *)
(* assertions hold; <Name>Asserts states them.                             *)

IsPermutation(permutation, n) ==
    /\ Len(permutation) = n
    /\ \A k \in 1..n : permutation[k] \in 0..(n - 1)
    /\ \A k, l \in 1..n : permutation[k] = permutation[l] => k = l

\* The two assert_eq! of permute_columns.
PermuteColumnsAsserts(a, permutation) ==
    /\ a.cols = Len(permutation)
    /\ ~(\E k \in 1..Len(permutation) : permutation[k] >= a.cols)

permute_columns(a, permutation) ==
    project_into(a, Empty(a.rows, a.cols), PermuteAt(permutation), PermuteMap(permutation))

\* shift with the expressions left as they are.
ShiftXKept(a, amount) ==
    IF a.rows <= 1 THEN a
    ELSE LET amount_abs == amount % a.rows
             res == project_into(a, Empty(a.rows, a.cols),
                                    ShiftAt(amount_abs, a.rows), IdentityMap)
         IN  WithLabels(res,
                 WithRows(res.labels, LAMBDA row : (row + amount_abs) % a.rows))

\* shift with the absolute value of the amount in place of rem_euclid.
ShiftAbsolute(a, amount) ==
    IF a.rows <= 1 THEN a
    ELSE LET amount_abs == (IF amount < 0 THEN 0 - amount ELSE amount) % a.rows
             factor == FPow(Root(a.rows), 0 - amount)
             res == project_into(a, Empty(a.rows, a.cols),
                                    ShiftAt(amount_abs, a.rows), ShiftMap(factor))
         IN  WithLabels(res,
                 WithRows(res.labels, LAMBDA row : (row + amount_abs) % a.rows))

shift(a, amount) ==
    IF a.rows <= 1 THEN a
    ELSE LET amount_abs == amount % a.rows
             factor == FPow(Root(a.rows), 0 - amount)
             res == project_into(a, Empty(a.rows, a.cols),
                                    ShiftAt(amount_abs, a.rows), ShiftMap(factor))
         IN  WithLabels(res,
                 WithRows(res.labels, LAMBDA row : (row + amount_abs) % a.rows))

FoldAsserts(a) == a.cols % 2 = 0

\* fold without the loop over the labels.
FoldLabelRowsKept(a) ==
    project_into(a, Empty(2 * a.rows, a.cols \div 2), FoldAt, FoldMap)

fold(a) ==
    LET res == project_into(a, Empty(2 * a.rows, a.cols \div 2), FoldAt, FoldMap)
    IN  WithLabels(res, WithRows(res.labels, LAMBDA row : row * 2))

ComposeHorizontalAsserts(a, b) == a.rows = b.rows

compose_horizontal(a, b) ==
    LET res == Empty(a.rows, a.cols + b.cols)
        left == WithLabels(a, Prefixed(a.labels, "left_"))
        res1 == project_into(left, res, IdentityAt, IdentityMap)
        right == WithLabels(b, Prefixed(b.labels, "right_"))
    IN  project_into(right, res1, RightAt(a.cols), RightMap(a.cols))

ComposeVerticalAsserts(a, b) ==
    /\ a.rows = b.rows
    /\ a.cols = b.cols
    /\ Len(a.constraints) = Len(b.constraints)

compose_vertical(a, b) ==
    LET res == Empty(2 * a.rows, a.cols)
        top == WithLabels(a, Prefixed(a.labels, "top_"))
        res1 == project_into(top, res, IdentityAt, SquareMap)
        bottom == WithLabels(b,
                      WithRows(Prefixed(b.labels, "bottom_"), LAMBDA row : row + a.rows))
        res2 == project_into(bottom, res1, BottomAt(a.rows), SquareMap)
    IN  [res2 EXCEPT !.constraints = SubSeq(@, 1, Len(a.constraints))]

\* label.trim_start_matches("left_")
RECURSIVE TrimLeft(_)
TrimLeft(name) ==
    IF name # <<>> /\ Head(name) = "left_" THEN TrimLeft(Tail(name)) ELSE name

\* The labels that trim to `name`.
TrimmedTo(labels, name) == {key \in DOMAIN labels : TrimLeft(key) = name}

\* The labels collected under their trimmed names.  Where several labels
\* get the same name the one the HashMap iterates last stays, and that can
\* be any of them, for every name on its own: keep[name] tells which,
\* counting the labels of the name from the shortest.
Trimmed(labels, keep) ==
    [name \in {TrimLeft(key) : key \in DOMAIN labels} |->
        LET from == TrimmedTo(labels, name)
            last == IF name \in DOMAIN keep THEN keep[name] % Cardinality(from) ELSE 0
            kept == CHOOSE key \in from :
                        Cardinality({other \in from : Len(other) < Len(key)}) = last
        IN  labels[kept]]

\* The orders a HashMap can iterate the labels in, told apart by the label
\* that comes last among those of each trimmed name that several labels
\* have; a name of one label has nothing to tell apart.
Keeps(labels) ==
    LET names == {name \in {TrimLeft(key) : key \in DOMAIN labels} :
                     Cardinality(TrimmedTo(labels, name)) > 1}
        most == IF names = {} THEN 1
                ELSE CHOOSE n \in {Cardinality(TrimmedTo(labels, name)) : name \in names} :
                         \A name \in names : Cardinality(TrimmedTo(labels, name)) <= n
    IN  {keep \in [names -> 0..(most - 1)] :
            \A name \in names : keep[name] < Cardinality(TrimmedTo(labels, name))}

\* One round of the loop of fold_many.
FoldOnce(res, keep) ==
    IF res.cols % 2 = 1
    THEN LET padded == compose_horizontal(res, Empty(res.rows, 1))
         IN  fold(WithLabels(padded, Trimmed(padded.labels, keep)))
    ELSE fold(res)

\* The assert_eq! of fold in every round of fold_many.
RECURSIVE FoldManyAsserts(_, _, _)
FoldManyAsserts(a, folds, keep) ==
    IF folds = 0 THEN TRUE
    ELSE /\ FoldAsserts(IF a.cols % 2 = 1
                        THEN compose_horizontal(a, Empty(a.rows, 1))
                        ELSE a)
         /\ FoldManyAsserts(FoldOnce(a, keep), folds - 1, keep)

RECURSIVE fold_many(_, _, _)
fold_many(a, folds, keep) ==
    IF folds = 0 THEN a ELSE fold_many(FoldOnce(a, keep), folds - 1, keep)

\* The row counts compose_folded can align: one divides the other by a
\* power of two.
ComposeFoldedAsserts(a, b) ==
    IF a.rows = 0 \/ b.rows = 0 THEN TRUE
    ELSE IF a.rows <= b.rows
         THEN a.rows * Pow2(TrailingZeros(b.rows \div a.rows)) = b.rows
         ELSE b.rows * Pow2(TrailingZeros(a.rows \div b.rows)) = a.rows

compose_folded(a, b, keep) ==
    IF a.rows = 0 THEN WithLabels(b, Prefixed(b.labels, "right_"))
    ELSE IF b.rows = 0 THEN WithLabels(a, Prefixed(a.labels, "left_"))
    ELSE IF a.rows < b.rows
         THEN compose_horizontal(
                  fold_many(a, TrailingZeros(b.rows \div a.rows), keep), b)
    ELSE IF a.rows = b.rows THEN compose_horizontal(a, b)
    ELSE compose_horizontal(a, fold_many(b, TrailingZeros(a.rows \div b.rows), keep))

----------------------------------------------------------------------------
(* The component session: starting from a component that passes check,     *)
(* operations are applied to the last result, the binary ones with a       *)
(* second component on either side.                                        *)

Labels1(name, row, expr) == [n \in {name} |-> [row |-> row, expr |-> expr]]

\* The trace values of FixedComponent::example: x0 = constraint_seed,
\* x1 = witness_seed, x(k+2) = x(k) * x(k+1) + constraint_seed.
RECURSIVE ExampleValues(_, _, _)
ExampleValues(n, constraint_seed, witness_seed) ==
    IF n = 0 THEN <<>>
    ELSE IF n = 1 THEN <<constraint_seed>>
    ELSE IF n = 2 THEN <<constraint_seed, witness_seed>>
    ELSE LET before == ExampleValues(n - 1, constraint_seed, witness_seed)
         IN  Append(before,
                 FAdd(FMul(before[n - 2], before[n - 1]), constraint_seed))

\* e * (X - w^0) * ... * (X - w^(n-1)): e is required on no row before n.
RECURSIVE ExceptFirst(_, _, _)
ExceptFirst(e, rows, n) ==
    IF n = 0 THEN e
    ELSE Mul(ExceptFirst(e, rows, n - 1),
             Sub(X, Constant(FPowNat(Root(rows), n - 1))))

\* The cell `back` places before column j of the current row, the cells
\* taken row by row.
ExampleCell(cols, j, back) ==
    LET k == j - back
    IN  Trace(k % cols, k \div cols)

\* The constraint of column j: the cell is the product of the two cells
\* before it plus the seed, on every row that has two cells before it.
ExampleConstraint(rows, cols, constraint_seed, j) ==
    LET recurrence == Sub(Trace(j, 0),
                          Add(Mul(ExampleCell(cols, j, 2), ExampleCell(cols, j, 1)),
                              Constant(constraint_seed)))
        first == Cardinality({i \in 0..(rows - 1) : i * cols + j < 2})
    IN  Div(ExceptFirst(recurrence, rows, first), Sub(Pow(X, rows), Constant(1)))

\* FixedComponent::example: the trace holds the values row by row; the
\* first cell is the constraint seed; the labels are the first cell, the
\* last cell and the value that would follow it.
example(rows, cols, constraint_seed, witness_seed) ==
    IF rows * cols = 0 THEN Empty(rows, cols)
    ELSE LET values_ == ExampleValues(rows * cols, constraint_seed, witness_seed)
         IN  [rows |-> rows, cols |-> cols,
              trace |-> [cell \in Cells(rows, cols) |-> values_[cell[1] * cols + cell[2] + 1]],
              constraints |->
                  <<Div(Sub(Trace(0, 0), Constant(constraint_seed)), Sub(X, Constant(1)))>>
                  \o [k \in 1..cols |-> ExampleConstraint(rows, cols, constraint_seed, k - 1)],
              labels |->
                  Extend(Labels1(<<"start">>, 0, Trace(0, 0)),
                  Extend(Labels1(<<"final">>, rows - 1, Trace(cols - 1, 0)),
                         Labels1(<<"next">>, rows - 1,
                                 Add(Mul(ExampleCell(cols, cols, 2), ExampleCell(cols, cols, 1)),
                                     Constant(constraint_seed)))))]

\* A column required to be constant: the constraint ties every row to the
\* next, around the end of the trace; the label "next" reads across the
\* end and the label "x" reads the row's point of the domain.
ConstantColumn(rows, value) ==
    [rows |-> rows, cols |-> 1,
     trace |-> [cell \in Cells(rows, 1) |-> value],
     constraints |-> <<Div(Sub(Trace(0, 1), Trace(0, 0)), Sub(Pow(X, rows), Constant(1)))>>,
     labels |->
         Extend(Labels1(<<"first">>, 0, Trace(0, 0)),
         Extend(Labels1(<<"next">>, rows - 1, Trace(0, 1)),
                Labels1(<<"x">>, rows - 1, Mul(X, Trace(0, 0)))))]

\* A constant column whose labels x, left_x, left_left_x and y, left_y (as
\* repeated compose_horizontal names them) trim to two names.
NestedLabels(rows, value) ==
    WithLabels(ConstantColumn(rows, value),
        Extend(Labels1(<<"x">>, 0, Trace(0, 0)),
        Extend(Labels1(<<"left_", "x">>, 1, Trace(0, 0)),
        Extend(Labels1(<<"left_", "left_", "x">>, 1, Trace(0, 1)),
        Extend(Labels1(<<"y">>, 0, X),
               Labels1(<<"left_", "y">>, 1, X))))))

BaseComponents ==
    {Empty(0, 0), example(1, 3, 2, 3), example(2, 2, 2, 3), example(2, 2, 2, 5),
     example(4, 1, 3, 4), ConstantColumn(1, 5), ConstantColumn(2, 7),
     ConstantColumn(2, 9), NestedLabels(2, 6)}

\* The components a binary operation gets next to the last result.
SecondComponents ==
    {Empty(0, 0), example(1, 3, 2, 3), example(2, 2, 2, 5), example(4, 1, 3, 4),
     ConstantColumn(2, 9)}

\* The arguments permute_columns is called with: the identity, the
\* reversal, a rotation, and a list that names column 0 every time.
ColumnPermutations(n) ==
    {[k \in 1..n |-> k - 1], [k \in 1..n |-> n - k], [k \in 1..n |-> k % n],
     [k \in 1..n |-> 0]}

\* The ends of the range of test_shift and a small amount.
ShiftAmounts == {-9999, 2, 10000}

FoldCounts == 0..2


NoCall == [name |-> "none"]

InitComponentIdle ==
    /\ comp = Empty(0, 0)
    /\ compA = Empty(0, 0)
    /\ compB = Empty(0, 0)
    /\ call = NoCall
    /\ steps = 0

InitComponent ==
    /\ comp \in BaseComponents
    /\ compA = Empty(0, 0)
    /\ compB = Empty(0, 0)
    /\ call = NoCall
    /\ steps = 0

\* The result is kept when the field has a domain for its trace.
Fits(c) == c.rows <= MaxRows

Returned(a, b, c, what) ==
    /\ steps < MaxSteps
    /\ Fits(c)
    /\ compA' = a
    /\ compB' = b
    /\ comp' = c
    /\ call' = what
    /\ steps' = steps + 1
    /\ UNCHANGED <<merkleVars, pedersenVars, channelVars, indexVars>>

PermuteColumns ==
    \E p \in ColumnPermutations(comp.cols) :
        /\ PermuteColumnsAsserts(comp, p)
        /\ Returned(comp, Empty(0, 0), permute_columns(comp, p),
                    [name |-> "permute_columns", permutation |-> p])

Shift ==
    \E amount \in ShiftAmounts :
        /\ comp.rows <= 1 \/ HasRoot(comp.rows)
        /\ Returned(comp, Empty(0, 0), shift(comp, amount),
                    [name |-> "shift", amount |-> amount])

Fold ==
    /\ FoldAsserts(comp)
    /\ Returned(comp, Empty(0, 0), fold(comp), [name |-> "fold"])

FoldMany ==
    \E folds \in FoldCounts : \E keep \in Keeps(comp.labels) :
        /\ comp.rows * Pow2(folds) <= MaxRows
        /\ Returned(comp, Empty(0, 0), fold_many(comp, folds, keep),
                    [name |-> "fold_many", folds |-> folds,
                     asserts |-> FoldManyAsserts(comp, folds, keep)])

\* The two arguments of a binary operation: the last result and a second
\* component, in either order.
Pairs == {<<comp, other>> : other \in SecondComponents}
             \cup {<<other, comp>> : other \in SecondComponents}

ComposeHorizontal ==
    \E ab \in Pairs :
        /\ ComposeHorizontalAsserts(ab[1], ab[2])
        /\ Returned(ab[1], ab[2], compose_horizontal(ab[1], ab[2]),
                    [name |-> "compose_horizontal"])

ComposeVertical ==
    \E ab \in Pairs :
        /\ ComposeVerticalAsserts(ab[1], ab[2])
        /\ 2 * ab[1].rows <= MaxRows
        /\ Returned(ab[1], ab[2], compose_vertical(ab[1], ab[2]),
                    [name |-> "compose_vertical"])

ComposeFolded ==
    \E ab \in Pairs :
      \E keep \in Keeps(IF ab[1].rows < ab[2].rows THEN ab[1].labels ELSE ab[2].labels) :
        /\ ComposeFoldedAsserts(ab[1], ab[2])
        /\ Returned(ab[1], ab[2], compose_folded(ab[1], ab[2], keep),
                    [name |-> "compose_folded"])

NextComponent ==
    \/ PermuteColumns
    \/ Shift
    \/ Fold
    \/ FoldMany
    \/ ComposeHorizontal
    \/ ComposeVertical
    \/ ComposeFolded

----------------------------------------------------------------------------
(* Properties of the component operations *)

Called(name) == call.name = name

\* The documented preconditions the assertions of the code do not cover:
\* the argument of permute_columns is a permutation; the two inputs of
\* compose_vertical have the same constraints.
WithinPreconditions ==
    /\ Called("permute_columns") => IsPermutation(call.permutation, compA.cols)
    /\ Called("compose_vertical") => compA.constraints = compB.constraints

\* The labels of `input` are in `output` under prefix + name, with the
\* values they have in `input`.
LabelsKept(input, output, prefix) ==
    \A k \in DOMAIN input.labels :
        /\ (<<prefix>> \o k) \in DOMAIN output.labels
        /\ eval_label(output, <<prefix>> \o k) = eval_label(input, k)

\* C8: every operation, applied within its preconditions to components
\* that pass check, returns a component that passes check.
C8_CheckPreserved ==
    (/\ ~Called("none")
     /\ check(compA)
     /\ check(compB)
     /\ WithinPreconditions) => check(comp)

\* C9: compose_horizontal(l, r) has the rows of its inputs, the columns and
\* the constraints of both; the cells of l are in place and those of r are
\* cols(l) columns to the right; the labels are exactly those of l under
\* left_ and those of r under right_, each with the value it had.
C9_ComposeHorizontal ==
    Called("compose_horizontal") =>
        /\ comp.rows = compA.rows
        /\ comp.rows = compB.rows
        /\ comp.cols = compA.cols + compB.cols
        /\ Len(comp.constraints) = Len(compA.constraints) + Len(compB.constraints)
        /\ \A cell \in DOMAIN compA.trace : comp.trace[cell] = compA.trace[cell]
        /\ \A cell \in DOMAIN compB.trace :
              comp.trace[<<cell[1], cell[2] + compA.cols>>] = compB.trace[cell]
        /\ DOMAIN comp.labels =
              {<<"left_">> \o k : k \in DOMAIN compA.labels}
                  \cup {<<"right_">> \o k : k \in DOMAIN compB.labels}
        /\ LabelsKept(compA, comp, "left_")
        /\ LabelsKept(compB, comp, "right_")

\* Two components with different cells and labels were composed, the right
\* one with a label that reads its last column.
C9_Witness ==
    /\ Called("compose_horizontal")
    /\ compA = example(2, 2, 2, 3)
    /\ compB = example(2, 2, 2, 5)
    /\ comp.cols = 4
    /\ eval_label(comp, <<"right_", "final">>) = eval_label(compB, <<"final">>)
    /\ eval_label(comp, <<"right_", "final">>) # eval_label(compA, <<"final">>)

\* C10: compose_vertical(top, bottom) has twice the rows, the columns and
\* the constraints of top; the cells of top are in place and those of
\* bottom are rows(top) rows down; every label of top keeps its value under
\* top_ and every label of bottom under bottom_, its row moved down by
\* rows(top).
C10_ComposeVertical ==
    Called("compose_vertical") =>
        /\ comp.rows = 2 * compA.rows
        /\ comp.cols = compA.cols
        /\ Len(comp.constraints) = Len(compA.constraints)
        /\ \A cell \in DOMAIN compA.trace : comp.trace[cell] = compA.trace[cell]
        /\ \A cell \in DOMAIN compB.trace :
              comp.trace[<<cell[1] + compA.rows, cell[2]>>] = compB.trace[cell]
        /\ LabelsKept(compA, comp, "top_")
        /\ LabelsKept(compB, comp, "bottom_")
        /\ \A k \in DOMAIN compB.labels :
              comp.labels[<<"bottom_">> \o k].row = compB.labels[k].row + compA.rows

Larger(a, b) == IF a >= b THEN a ELSE b

\* C11: compose_folded(l, r) has the rows of the longer input, at most the
\* columns of both and the constraints of both; every label k of l has its
\* value under left_k and every label k of r under right_k, whatever the
\* names of the labels.
C11_ComposeFolded ==
    Called("compose_folded") =>
        /\ comp.rows = Larger(compA.rows, compB.rows)
        /\ comp.cols <= compA.cols + compB.cols
        /\ Len(comp.constraints) = Len(compA.constraints) + Len(compB.constraints)
        /\ LabelsKept(compA, comp, "left_")
        /\ LabelsKept(compB, comp, "right_")

\* The labels of `input` are in `output` under their own names, with the
\* values they have in `input`.
LabelsSame(input, output) ==
    \A k \in DOMAIN input.labels :
        /\ k \in DOMAIN output.labels
        /\ eval_label(output, k) = eval_label(input, k)

\* The trace cells an expression reads, from left to right.
RECURSIVE TraceReads(_)
TraceReads(e) ==
    CASE e.op \in {"Add", "Sub", "Mul"} -> TraceReads(e.a) \o TraceReads(e.b)
      [] e.op \in {"Neg", "Inv"} -> TraceReads(e.arg)
      [] e.op = "Pow" -> TraceReads(e.base)
      [] e.op = "Trace" -> <<<<e.column, e.offset>>>>
      [] OTHER -> <<>>

\* The expression around its trace reads.
RECURSIVE Skeleton(_)
Skeleton(e) ==
    CASE e.op \in {"Add", "Sub", "Mul"} ->
            [op |-> e.op, a |-> Skeleton(e.a), b |-> Skeleton(e.b)]
      [] e.op \in {"Neg", "Inv"} -> [op |-> e.op, arg |-> Skeleton(e.arg)]
      [] e.op = "Pow" -> [op |-> "Pow", base |-> Skeleton(e.base), exponent |-> e.exponent]
      [] e.op = "Trace" -> [op |-> "Trace"]
      [] OTHER -> e

\* `after` is `before` with every Trace(col, off) folded.
FoldedExpression(before, after) ==
    /\ Skeleton(after) = Skeleton(before)
    /\ TraceReads(after) =
          [n \in 1..Len(TraceReads(before)) |->
              LET read == TraceReads(before)[n]
              IN  <<read[1] \div 2, 2 * read[2] + (read[1] % 2)>>]

\* C12: fold(c) has twice the rows, half the columns and the constraints of
\* c; the cell (i, j) of c is at (2i + j mod 2, j div 2); every Trace(col,
\* off) of the constraints and labels is Trace(col div 2, 2 off + col mod
\* 2); the rows of the labels are doubled and every label has its value
\* under its name.
C12_Fold ==
    Called("fold") =>
        /\ compA.cols % 2 = 0
        /\ comp.rows = 2 * compA.rows
        /\ comp.cols = compA.cols \div 2
        /\ Len(comp.constraints) = Len(compA.constraints)
        /\ \A cell \in DOMAIN compA.trace :
              comp.trace[<<2 * cell[1] + (cell[2] % 2), cell[2] \div 2>>]
                  = compA.trace[cell]
        /\ \A k \in 1..Len(compA.constraints) :
              FoldedExpression(compA.constraints[k], comp.constraints[k])
        /\ DOMAIN comp.labels = DOMAIN compA.labels
        /\ \A k \in DOMAIN compA.labels :
              /\ comp.labels[k].row = 2 * compA.labels[k].row
              /\ FoldedExpression(compA.labels[k].expr, comp.labels[k].expr)
        /\ LabelsSame(compA, comp)

\* A component of two rows and two columns was folded: the second column
\* is on the odd rows and the label on the last cell reads it there.
C12_Witness ==
    /\ Called("fold")
    /\ compA = example(2, 2, 2, 3)
    /\ comp.rows = 4
    /\ comp.cols = 1
    /\ comp.trace[<<3, 0>>] = compA.trace[<<1, 1>>]
    /\ comp.labels[<<"final">>] = [row |-> 2, expr |-> Trace(0, 1)]
    /\ eval_label(comp, <<"final">>) = compA.trace[<<1, 1>>]

\* C13: fold_many(c, k) passes the assertion of fold in every round and has
\* rows(c) * 2^k rows, (cols(c) >> k) columns or one more and the
\* constraints of c; every label of c has its value under its name,
\* whatever the names of the labels.
C13_FoldMany ==
    Called("fold_many") =>
        /\ call.asserts
        /\ comp.rows = compA.rows * Pow2(call.folds)
        /\ (comp.cols - (compA.cols \div Pow2(call.folds))) \in {0, 1}
        /\ Len(comp.constraints) = Len(compA.constraints)
        /\ LabelsSame(compA, comp)

\* C14: shift(c, amount) has the rows, columns and constraints of c; the
\* cell (i, j) of c is at ((i + amount) mod rows, j); the row of every
\* label is (row + amount) mod rows and every label has its value under
\* its name; a component of at most one row is returned as it is.
C14_Shift ==
    Called("shift") =>
        IF compA.rows <= 1 THEN comp = compA
        ELSE /\ comp.rows = compA.rows
             /\ comp.cols = compA.cols
             /\ Len(comp.constraints) = Len(compA.constraints)
             /\ \A cell \in DOMAIN compA.trace :
                   comp.trace[<<(cell[1] + call.amount) % compA.rows, cell[2]>>]
                       = compA.trace[cell]
             /\ DOMAIN comp.labels = DOMAIN compA.labels
             /\ \A k \in DOMAIN compA.labels :
                   comp.labels[k].row = (compA.labels[k].row + call.amount) % compA.rows
             /\ LabelsSame(compA, comp)

\* Four rows were shifted by -9999, that is by one row: the last row is the
\* first, and the label on the last cell is on row 0.
C14_Witness ==
    /\ Called("shift")
    /\ call.amount = -9999
    /\ compA = example(4, 1, 3, 4)
    /\ comp.trace[<<0, 0>>] = compA.trace[<<3, 0>>]
    /\ comp.trace[<<0, 0>>] # compA.trace[<<0, 0>>]
    /\ comp.labels[<<"final">>].row = 0
    /\ eval_label(comp, <<"final">>) = compA.trace[<<3, 0>>]

\* `after` is `before` with every Trace(col, off) on the column p[col].
PermutedExpression(before, after, p) ==
    /\ Skeleton(after) = Skeleton(before)
    /\ TraceReads(after) =
          [n \in 1..Len(TraceReads(before)) |->
              LET read == TraceReads(before)[n]
              IN  <<At(p, read[1]), read[2]>>]

\* C15: permute_columns(c, p) with a permutation p of the columns has the
\* rows, columns and constraints of c; the cell (i, j) of c is at (i,
\* p[j]); every Trace(col, off) of the constraints and labels is
\* Trace(p[col], off); every label has its row and its value under its
\* name.
C15_PermuteColumns ==
    (Called("permute_columns") /\ IsPermutation(call.permutation, compA.cols)) =>
        /\ comp.rows = compA.rows
        /\ comp.cols = compA.cols
        /\ Len(comp.constraints) = Len(compA.constraints)
        /\ \A cell \in DOMAIN compA.trace :
              comp.trace[<<cell[1], At(call.permutation, cell[2])>>] = compA.trace[cell]
        /\ \A k \in 1..Len(compA.constraints) :
              PermutedExpression(compA.constraints[k], comp.constraints[k], call.permutation)
        /\ DOMAIN comp.labels = DOMAIN compA.labels
        /\ \A k \in DOMAIN compA.labels :
              /\ comp.labels[k].row = compA.labels[k].row
              /\ PermutedExpression(compA.labels[k].expr, comp.labels[k].expr,
                                    call.permutation)
        /\ LabelsSame(compA, comp)

\* Three columns were rotated: column 0 is column 1, column 2 is column 0,
\* and the label on the last cell reads column 0.
C15_Witness ==
    /\ Called("permute_columns")
    /\ call.permutation = <<1, 2, 0>>
    /\ compA = example(1, 3, 2, 3)
    /\ comp.trace[<<0, 1>>] = compA.trace[<<0, 0>>]
    /\ comp.trace[<<0, 0>>] = compA.trace[<<0, 2>>]
    /\ comp.trace[<<0, 0>>] # compA.trace[<<0, 0>>]
    /\ comp.labels[<<"final">>].expr = Trace(0, 0)
    /\ eval_label(comp, <<"final">>) = compA.trace[<<0, 2>>]

----------------------------------------------------------------------------
(* The Pedersen-Merkle composition: the constraints as a list of           *)
(* Constraint entries and as the tables of eval_c_direct.  The field is a  *)
(* prime field with a root of unity for the trace, small enough to         *)
(* compute in.                                                             *)

PedersenModulus == 12289

\* A generator of the multiplicative group.
PedersenGenerator == 11

PAdd(a, b) == (a + b) % PedersenModulus

PSub(a, b) == (a - b) % PedersenModulus

PMul(a, b) == (a * b) % PedersenModulus

RECURSIVE PPow(_, _)
PPow(a, e) ==
    IF e = 0 THEN 1
    ELSE IF e % 2 = 0 THEN PPow(PMul(a, a), e \div 2)
    ELSE PMul(a, PPow(a, e - 1))

PInv(a) == PPow(a, PedersenModulus - 2)

\* FieldElement::root(n)
PRoot(n) == PPow(PedersenGenerator, (PedersenModulus - 1) \div n)

\* trace_length = path_length * 256
RowsPerHash == 256

\* field_element_bits
FieldElementBits == 252

\* The path length of STARKWARE_PUBLIC_INPUT (8192 in the program; here
\* the field has a trace domain for this one).
StarkwarePathLength == 4

\* The path length eval_c_direct hands to get_pedersen_coordinates (the
\* literal 8192 of the program, the path length of STARKWARE_PUBLIC_INPUT).
CoordinatesPathLength == 4

STARKWARE_PUBLIC_INPUT ==
    [path_length |-> StarkwarePathLength, leaf |-> 1234, root |-> 4321]

\* SHIFT_POINT
ShiftPoint == [x |-> 777, y |-> 888]

\* SparsePolynomial: a list of (coefficient, degree) pairs.
RECURSIVE SparseEvaluate(_, _)
SparseEvaluate(poly, x) ==
    IF poly = <<>> THEN 0
    ELSE PAdd(PMul(Head(poly)[1] % PedersenModulus, PPow(x, Head(poly)[2])),
              SparseEvaluate(Tail(poly), x))

\* SparsePolynomial::degree: the largest degree of the list.
SparseDegree(poly) ==
    LET degrees == {poly[k][2] : k \in DOMAIN poly}
    IN  IF degrees = {} THEN 0
        ELSE CHOOSE d \in degrees : \A e \in degrees : e <= d

\* The tables LEFT_X_COEFFICIENTS, LEFT_Y_COEFFICIENTS, RIGHT_X_COEFFICIENTS
\* and RIGHT_Y_COEFFICIENTS: one coefficient for every row of a hash.
PeriodicTables == {"left_x", "left_y", "right_x", "right_y"}

PeriodicCoefficients(table) ==
    LET seed == CASE table = "left_x" -> 3
                  [] table = "left_y" -> 5
                  [] table = "right_x" -> 7
                  [] OTHER -> 9
    IN  [k \in 1..RowsPerHash |-> (seed * k * k + k + seed) % PedersenModulus]

\* SparsePolynomial::periodic(coefficients, repetitions): the polynomial
\* with the coefficients in X^repetitions.
periodic(coefficients, repetitions) ==
    [k \in 1..Len(coefficients) |-> <<coefficients[k], (k - 1) * repetitions>>]

\* The value at x of periodic(coefficients, repetitions): the sum of
\* coefficients[k] * y^(k - from) for k in from..to, with y = x^repetitions,
\* summed by halves.
RECURSIVE PeriodicSum(_, _, _, _)
PeriodicSum(coefficients, from, to, y) ==
    IF from = to THEN coefficients[from]
    ELSE LET middle == (from + to) \div 2
         IN  PAdd(PeriodicSum(coefficients, from, middle, y),
                  PMul(PPow(y, middle + 1 - from),
                       PeriodicSum(coefficients, middle + 1, to, y)))

PeriodicEvaluate(table, repetitions, x) ==
    PeriodicSum(PeriodicCoefficients(table), 1, RowsPerHash, PPow(x, repetitions))

\* get_pedersen_coordinates
get_pedersen_coordinates(x, path_length) ==
    [table \in PeriodicTables |-> PeriodicEvaluate(table, path_length, x)]

\* The polynomials the base closures are built from: a trace polynomial
\* tp[i], tp[i].next(), and a periodic column.
Tp(i) == [op |-> "tp", column |-> i]

TpNext(i) == [op |-> "next", column |-> i]

Periodic(table) == [op |-> "periodic", table |-> table]

Square(e) == Mul(e, e)

\* get_left_bit, get_right_bit
get_left_bit == Sub(Tp(0), Mul(Constant(2), TpNext(0)))

get_right_bit == Sub(Tp(4), Mul(Constant(2), TpNext(4)))

Entry(base, numerator, denominator) ==
    [base |-> base, numerator |-> numerator, denominator |-> denominator]

get_pedersen_merkle_constraints(public_input) ==
    LET path_length == public_input.path_length
        trace_length == path_length * RowsPerHash
        root_ == public_input.root
        leaf == public_input.leaf
        g == PRoot(trace_length)
        no_rows == <<<<1, 0>>>>
        first_row == <<<<-1, 0>>, <<1, 1>>>>
        last_row == <<<<0 - PPow(g, trace_length - 1), 0>>, <<1, 1>>>>
        hash_end_rows ==
            <<<<1, path_length>>, <<0 - PPow(g, path_length * (trace_length - 1)), 0>>>>
        field_element_end_rows ==
            <<<<0 - PPow(g, FieldElementBits * path_length), 0>>, <<1, path_length>>>>
        hash_start_rows == <<<<1, path_length>>, <<-1, 0>>>>
        every_row == <<<<1, trace_length>>, <<-1, 0>>>>
        q_x_left_1 == Periodic("left_x")
        q_x_left_2 == Periodic("left_x")
        q_y_left == Periodic("left_y")
        q_x_right_1 == Periodic("right_x")
        q_x_right_2 == Periodic("right_x")
        q_y_right == Periodic("right_y")
        left_bit == get_left_bit
        right_bit == get_right_bit
        one == Constant(1)
    IN  << Entry(Tp(0), no_rows, no_rows),
           Entry(Tp(1), no_rows, no_rows),
           Entry(Tp(2), no_rows, no_rows),
           Entry(Tp(3), no_rows, no_rows),
           Entry(Tp(4), no_rows, no_rows),
           Entry(Tp(5), no_rows, no_rows),
           Entry(Tp(6), no_rows, no_rows),
           Entry(Tp(7), no_rows, no_rows),
           Entry(Mul(Sub(Constant(leaf), Tp(0)), Sub(Constant(leaf), Tp(4))),
                 no_rows, first_row),
           Entry(Sub(Constant(root_), Tp(6)), no_rows, last_row),
           Entry(Mul(Sub(Tp(6), TpNext(0)), Sub(Tp(6), TpNext(4))),
                 last_row, hash_end_rows),
           Entry(Sub(Tp(6), Constant(ShiftPoint.x)), no_rows, hash_start_rows),
           Entry(Sub(Tp(7), Constant(ShiftPoint.y)), no_rows, hash_start_rows),
           Entry(Mul(left_bit, Sub(left_bit, one)), hash_end_rows, every_row),
           Entry(Sub(Mul(left_bit, Sub(Tp(7), q_y_left)),
                     Mul(TpNext(1), Sub(Tp(6), q_x_left_1))),
                 hash_end_rows, every_row),
           Entry(Sub(Square(TpNext(1)),
                     Mul(left_bit, Add(Add(Tp(6), q_x_left_2), TpNext(2)))),
                 hash_end_rows, every_row),
           Entry(Sub(Mul(left_bit, Add(Tp(7), TpNext(3))),
                     Mul(TpNext(1), Sub(Tp(6), TpNext(2)))),
                 hash_end_rows, every_row),
           Entry(Mul(Sub(one, left_bit), Sub(Tp(6), TpNext(2))),
                 hash_end_rows, every_row),
           Entry(Mul(Sub(one, left_bit), Sub(Tp(7), TpNext(3))),
                 hash_end_rows, every_row),
           Entry(Tp(0), no_rows, field_element_end_rows),
           Entry(Tp(0), no_rows, hash_end_rows),
           Entry(Mul(right_bit, Sub(right_bit, one)), hash_end_rows, every_row),
           Entry(Sub(Mul(right_bit, Sub(TpNext(3), q_y_right)),
                     Mul(TpNext(5), Sub(TpNext(2), q_x_right_1))),
                 hash_end_rows, every_row),
           Entry(Sub(Square(TpNext(5)),
                     Mul(right_bit, Add(Add(TpNext(2), q_x_right_2), TpNext(6)))),
                 hash_end_rows, every_row),
           Entry(Sub(Mul(right_bit, Add(TpNext(3), TpNext(7))),
                     Mul(TpNext(5), Sub(TpNext(2), TpNext(6)))),
                 hash_end_rows, every_row),
           Entry(Mul(Sub(one, right_bit), Sub(TpNext(2), TpNext(6))),
                 hash_end_rows, every_row),
           Entry(Mul(Sub(one, right_bit), Sub(TpNext(3), TpNext(7))),
                 hash_end_rows, every_row),
           Entry(Tp(4), no_rows, field_element_end_rows),
           Entry(Tp(4), no_rows, hash_end_rows) >>

\* The value at x of a polynomial built by a base closure; `rows` holds
\* the values of the trace polynomials at x and at g x, `columns` those of
\* the periodic columns at x.
RECURSIVE BaseEvaluate(_, _, _)
BaseEvaluate(e, rows, columns) ==
    CASE e.op = "tp" -> At(rows.this_row, e.column)
      [] e.op = "next" -> At(rows.next_row, e.column)
      [] e.op = "periodic" -> columns[e.table]
      [] e.op = "Constant" -> e.value % PedersenModulus
      [] e.op = "Add" -> PAdd(BaseEvaluate(e.a, rows, columns), BaseEvaluate(e.b, rows, columns))
      [] e.op = "Sub" -> PSub(BaseEvaluate(e.a, rows, columns), BaseEvaluate(e.b, rows, columns))
      [] e.op = "Mul" -> PMul(BaseEvaluate(e.a, rows, columns), BaseEvaluate(e.b, rows, columns))

\* The degree of a polynomial built by a base closure from trace
\* polynomials of degree trace_length - 1.
RECURSIVE BaseDegree(_, _)
BaseDegree(e, path_length) ==
    CASE e.op \in {"tp", "next"} -> path_length * RowsPerHash - 1
      [] e.op = "periodic" ->
            SparseDegree(periodic(PeriodicCoefficients(e.table), path_length))
      [] e.op = "Constant" -> 0
      [] e.op \in {"Add", "Sub"} ->
            Larger(BaseDegree(e.a, path_length), BaseDegree(e.b, path_length))
      [] e.op = "Mul" -> BaseDegree(e.a, path_length) + BaseDegree(e.b, path_length)

\* get_constraint_polynomials, one constraint of the sum, at x: the base
\* times the numerator over the denominator, taken with its coefficient
\* and with its second coefficient times X^adjustment, the adjustment
\* lifting the constraint to the degree 2 * trace_length - 1.
ConstraintAdjustment(entry, path_length) ==
    2 * path_length * RowsPerHash - 1
        - (BaseDegree(entry.base, path_length) + SparseDegree(entry.numerator)
           - SparseDegree(entry.denominator))

\* What one Constraint entry contributes at x: the values of its base, of
\* its numerator and of the inverse of its denominator, and its adjustment.
ConstraintParts(entry, x, rows, columns, path_length) ==
    [base |-> BaseEvaluate(entry.base, rows, columns),
     numerator |-> SparseEvaluate(entry.numerator, x),
     denominator |-> PInv(SparseEvaluate(entry.denominator, x)),
     adjustment |-> ConstraintAdjustment(entry, path_length)]

ConstraintValue(part) == PMul(PMul(part.base, part.numerator), part.denominator)

ConstraintTerm(part, i, x, coefficients) ==
    PMul(ConstraintValue(part),
         PAdd(At(coefficients, 2 * i),
              PMul(At(coefficients, 2 * i + 1), PPow(x, part.adjustment))))

\* Row and Subrow: the eight values of a row of the trace.
Subrow(vals, from) ==
    [source |-> At(vals, from), slope |-> At(vals, from + 1),
     x |-> At(vals, from + 2), y |-> At(vals, from + 3)]

Row(vals) == [left |-> Subrow(vals, 0), right |-> Subrow(vals, 4)]

\* eval_c_direct: numerators
DirectNumerators(x) ==
    LET path_length == STARKWARE_PUBLIC_INPUT.path_length
        trace_length == RowsPerHash * path_length
        trace_generator == PRoot(trace_length)
    IN  << PSub(x, PPow(trace_generator, trace_length - 1)),
           PSub(PPow(x, path_length),
                PPow(trace_generator, (trace_length - 1) * path_length)),
           1 >>

\* eval_c_direct: the values invert_batch is given
DirectDenominatorValues(x) ==
    LET path_length == STARKWARE_PUBLIC_INPUT.path_length
        trace_length == RowsPerHash * path_length
        trace_generator == PRoot(trace_length)
    IN  << PSub(x, 1),
           PSub(x, PPow(trace_generator, trace_length - 1)),
           PSub(PPow(x, path_length),
                PPow(trace_generator, path_length * (trace_length - 1))),
           PSub(PPow(x, path_length), 1),
           PSub(PPow(x, trace_length), 1),
           PSub(PPow(x, path_length),
                PPow(trace_generator, FieldElementBits * path_length)),
           1 >>

\* eval_c_direct: denominators
DirectDenominators(x) ==
    LET vals == DirectDenominatorValues(x)
    IN  [k \in 1..Len(vals) |-> PInv(vals[k])]

\* eval_c_direct: constraints
DirectConstraints(x, rows) ==
    LET public_input == STARKWARE_PUBLIC_INPUT
        this == Row(rows.this_row)
        next == Row(rows.next_row)
        left_bit == PSub(this.left.source, PMul(2, next.left.source))
        right_bit == PSub(this.right.source, PMul(2, next.right.source))
        shift_point_x == ShiftPoint.x
        shift_point_y == ShiftPoint.y
        q == get_pedersen_coordinates(x, CoordinatesPathLength)
        q_x_left == q["left_x"]
        q_y_left == q["left_y"]
        q_x_right == q["right_x"]
        q_y_right == q["right_y"]
    IN  << this.left.source,
           this.left.slope,
           this.left.x,
           this.left.y,
           this.right.source,
           this.right.slope,
           this.right.x,
           this.right.y,
           PMul(PSub(public_input.leaf, this.left.source),
                PSub(public_input.leaf, this.right.source)),
           PSub(public_input.root, this.right.x),
           PMul(PSub(this.right.x, next.left.source),
                PSub(this.right.x, next.right.source)),
           PSub(this.right.x, shift_point_x),
           PSub(this.right.y, shift_point_y),
           PMul(left_bit, PSub(left_bit, 1)),
           PSub(PMul(left_bit, PSub(this.right.y, q_y_left)),
                PMul(next.left.slope, PSub(this.right.x, q_x_left))),
           PSub(PMul(next.left.slope, next.left.slope),
                PMul(left_bit, PAdd(PAdd(this.right.x, q_x_left), next.left.x))),
           PSub(PMul(left_bit, PAdd(this.right.y, next.left.y)),
                PMul(next.left.slope, PSub(this.right.x, next.left.x))),
           PMul(PSub(1, left_bit), PSub(this.right.x, next.left.x)),
           PMul(PSub(1, left_bit), PSub(this.right.y, next.left.y)),
           this.left.source,
           this.left.source,
           PMul(right_bit, PSub(right_bit, 1)),
           PSub(PMul(right_bit, PSub(next.left.y, q_y_right)),
                PMul(next.right.slope, PSub(next.left.x, q_x_right))),
           PSub(PMul(next.right.slope, next.right.slope),
                PMul(right_bit, PAdd(PAdd(next.left.x, q_x_right), next.right.x))),
           PSub(PMul(right_bit, PAdd(next.left.y, next.right.y)),
                PMul(next.right.slope, PSub(next.left.x, next.right.x))),
           PMul(PSub(1, right_bit), PSub(next.left.x, next.right.x)),
           PMul(PSub(1, right_bit), PSub(next.left.y, next.right.y)),
           this.right.source,
           this.right.source >>

\* eval_c_direct: degree_adjustment
degree_adjustment(trace_length, constraint_degree, numerator_degree, denominator_degree) ==
    2 * trace_length + denominator_degree - 1 - constraint_degree - numerator_degree

\* eval_c_direct: the exponents of adjustments
DirectAdjustmentDegrees ==
    LET path_length == STARKWARE_PUBLIC_INPUT.path_length
        trace_length == RowsPerHash * path_length
    IN  << degree_adjustment(trace_length, trace_length - 1, 0, 0),
           degree_adjustment(trace_length, 2 * (trace_length - 1), 0, 1),
           degree_adjustment(trace_length, trace_length - 1, 0, 1),
           degree_adjustment(trace_length, 2 * (trace_length - 1), 1, path_length),
           degree_adjustment(trace_length, trace_length - 1, 0, path_length),
           degree_adjustment(trace_length, 2 * (trace_length - 1), path_length,
                             trace_length) >>

\* eval_c_direct: adjustments
DirectAdjustments(x) ==
    [k \in 1..Len(DirectAdjustmentDegrees) |-> PPow(x, DirectAdjustmentDegrees[k])]

numerator_indices ==
    << 2, 2, 2, 2, 2, 2, 2, 2,
       2, 2, 0, 2, 2,
       1, 1, 1, 1, 1, 1, 2, 2,
       1, 1, 1, 1, 1, 1, 2, 2 >>

\* A denominator table with the entries of the two bit-length constraints
\* of the left input exchanged.
DenominatorIndicesExchanged ==
    << 6, 6, 6, 6, 6, 6, 6, 6,
       0, 1, 2, 3, 3,
       4, 4, 4, 4, 4, 4, 2, 5,
       4, 4, 4, 4, 4, 4, 5, 2 >>

denominator_indices ==
    << 6, 6, 6, 6, 6, 6, 6, 6,
       0, 1, 2, 3, 3,
       4, 4, 4, 4, 4, 4, 5, 2,
       4, 4, 4, 4, 4, 4, 5, 2 >>

\* An adjustment table with the entries of the root constraint and of the
\* path constraint exchanged.
AdjustmentIndicesExchanged ==
    << 0, 0, 0, 0, 0, 0, 0, 0,
       1, 3, 2, 4, 4, 5, 5, 5, 5, 5, 5, 4, 4, 5, 5, 5, 5, 5, 5, 4, 4 >>

adjustment_indices ==
    << 0, 0, 0, 0, 0, 0, 0, 0,
       1, 2, 3, 4, 4, 5, 5, 5, 5, 5, 5, 4, 4, 5, 5, 5, 5, 5, 5, 4, 4 >>

\* eval_c_direct: what it computes before its loop
DirectTables(x, rows) ==
    [numerators |-> DirectNumerators(x),
     denominators |-> DirectDenominators(x),
     constraints |-> DirectConstraints(x, rows),
     adjustments |-> DirectAdjustments(x)]

\* eval_c_direct, the body of its loop for index i: value
DirectValue(tables, i) ==
    PMul(PMul(At(tables.constraints, i),
              At(tables.numerators, At(numerator_indices, i))),
         At(tables.denominators, At(denominator_indices, i)))

\* eval_c_direct, the body of its loop for index i: what is added to result
DirectTerm(tables, i, coefficients) ==
    PMul(DirectValue(tables, i),
         PAdd(At(coefficients, 2 * i),
              PMul(At(coefficients, 2 * i + 1),
                   At(tables.adjustments, At(adjustment_indices, i)))))

(* The session of the Pedersen-Merkle composition: a point, the values of  *)
(* the trace polynomials at the point and at the next one, and the         *)
(* coefficients are chosen; eval_c_direct runs its loop and the constraint *)
(* polynomial of the Constraint list is summed up at the point.            *)

\* How many traces the session chooses from.
MaxTraces == 2

NumConstraints == Len(numerator_indices)

PublicInputs ==
    { STARKWARE_PUBLIC_INPUT,
      [STARKWARE_PUBLIC_INPUT EXCEPT !.leaf = 99],
      [STARKWARE_PUBLIC_INPUT EXCEPT !.path_length = 2] }

\* Points off the trace domain; the first is FieldElement::GENERATOR.
Points == { x \in {PedersenGenerator, 2} :
              PPow(x, RowsPerHash * StarkwarePathLength) # 1 }

\* The values of the eight trace polynomials at the point and at the next.
TraceValues(seed) ==
    [this_row |-> [k \in 1..8 |-> (seed * 1009 + 37 * k * k + k) % PedersenModulus],
     next_row |-> [k \in 1..8 |-> (seed * 2003 + 91 * k * k + 5 * k) % PedersenModulus]]

\* The coefficients of new_matches_old_constraints: one for each of the
\* first 2 * 29, zero after them; and coefficients that are all different.
CoefficientChoices ==
    { [k \in 1..100 |-> IF k <= 2 * NumConstraints THEN 1 ELSE 0],
      [k \in 1..100 |-> 2 * k + 1] }

InitPedersenIdle == ped = [phase |-> "idle"]

InitChannelIdle == chan = [phase |-> "idle"]

InitPedersen ==
    \E public_input \in PublicInputs, x \in Points, seed \in 1..MaxTraces,
       coefficients \in CoefficientChoices :
        ped = [phase |-> "run",
               public_input |-> public_input,
               x |-> x,
               rows |-> TraceValues(seed),
               coefficients |-> coefficients,
               direct |-> <<>>,
               i |-> 0,
               result |-> 0,
               parts |-> <<>>,
               j |-> 0,
               combined |-> 0]

\* eval_c_direct up to its loop.
EvalDirectStart ==
    /\ ped.phase = "run"
    /\ ped.direct = <<>>
    /\ ped' = [ped EXCEPT !.direct = <<DirectTables(ped.x, ped.rows)>>]
    /\ UNCHANGED <<merkleVars, componentVars, channelVars, indexVars>>

\* One round of the loop of eval_c_direct.
EvalDirectStep ==
    /\ ped.phase = "run"
    /\ ped.direct # <<>>
    /\ ped.i < NumConstraints
    /\ ped' = [ped EXCEPT
                 !.result = PAdd(@, DirectTerm(ped.direct[1], ped.i, ped.coefficients)),
                 !.i = @ + 1]
    /\ UNCHANGED <<merkleVars, componentVars, channelVars, indexVars>>

\* The Constraint list is built and every entry evaluated at the point.
CombineStart ==
    /\ ped.phase = "run"
    /\ ped.parts = <<>>
    /\ LET constraints == get_pedersen_merkle_constraints(ped.public_input)
           path_length == ped.public_input.path_length
           columns == get_pedersen_coordinates(ped.x, path_length)
       IN  ped' = [ped EXCEPT
                     !.parts = [k \in 1..Len(constraints) |->
                                  ConstraintParts(constraints[k], ped.x, ped.rows,
                                                  columns, path_length)]]
    /\ UNCHANGED <<merkleVars, componentVars, channelVars, indexVars>>

\* One constraint added to the combined constraint polynomial, at the point.
CombineStep ==
    /\ ped.phase = "run"
    /\ ped.parts # <<>>
    /\ ped.j < Len(ped.parts)
    /\ ped' = [ped EXCEPT
                 !.combined = PAdd(@, ConstraintTerm(At(ped.parts, ped.j), ped.j,
                                                     ped.x, ped.coefficients)),
                 !.j = @ + 1]
    /\ UNCHANGED <<merkleVars, componentVars, channelVars, indexVars>>

NextPedersen == EvalDirectStart \/ EvalDirectStep \/ CombineStart \/ CombineStep

\* C16: for the public input eval_c_direct is written for, the Constraint
\* list and the tables of eval_c_direct agree index by index (the value of
\* the base, the numerator, the inverse of the denominator and the power of
\* the adjustment, at a point off the trace domain), there are as many
\* entries as table rows, and the two sums are equal whenever they have
\* taken in the same constraints, so the two values are equal at the end.
C16_NewMatchesOld ==
    (ped.phase = "run" /\ ped.public_input = STARKWARE_PUBLIC_INPUT) =>
        /\ ped.parts # <<>> => Len(ped.parts) = NumConstraints
        /\ (ped.direct # <<>> /\ ped.parts # <<>>) =>
              \A k \in 0..(NumConstraints - 1) :
                  LET tables == ped.direct[1]
                      part == At(ped.parts, k)
                  IN  /\ At(tables.constraints, k) = part.base
                      /\ At(tables.numerators, At(numerator_indices, k)) = part.numerator
                      /\ At(tables.denominators, At(denominator_indices, k))
                             = part.denominator
                      /\ At(tables.adjustments, At(adjustment_indices, k))
                             = PPow(ped.x, part.adjustment)
        /\ ped.i = ped.j => ped.result = ped.combined

\* Both sums are complete at FieldElement::GENERATOR with every coefficient
\* one, as in new_matches_old_constraints, and the common value is not zero.
C16_Witness ==
    /\ ped.phase = "run"
    /\ ped.public_input = STARKWARE_PUBLIC_INPUT
    /\ ped.x = PedersenGenerator
    /\ \A k \in 1..(2 * NumConstraints) : ped.coefficients[k] = 1
    /\ ped.i = NumConstraints
    /\ ped.j = NumConstraints
    /\ ped.result = ped.combined
    /\ ped.result # 0

----------------------------------------------------------------------------
(* The channel: a prover channel that owns the proof and a sponge, and a   *)
(* verifier channel that consumes the proof and owns a sponge of its own.  *)

\* How many writes and squeezes the prover channel makes.
MaxChannelOps == 3

\* The longest byte string of one write.
MaxWrite == 2

ChannelBytes == {0, 1}

ByteStrings ==
    UNION { [1..n -> ChannelBytes] : n \in 1..MaxWrite }

\* The sponge: what has been absorbed, and how many times it has been
\* squeezed since.
NewSponge == [digest |-> <<>>, counter |-> 0]

Absorb(sponge, bytes) ==
    [digest |-> <<"hash", sponge.digest, bytes>>, counter |-> 0]

SqueezedValue(sponge) == <<"hash", sponge.digest, sponge.counter>>

Squeezed(sponge) == [sponge EXCEPT !.counter = @ + 1]

\* ProverChannel::write_bytes: the bytes go to the proof and to the sponge.
write_bytes(prover, bytes) ==
    [proof |-> prover.proof \o bytes, sponge |-> Absorb(prover.sponge, bytes)]

\* A read that takes the bytes from the proof and leaves the sponge alone.
ReadNotAbsorbed(verifier, stream, length) ==
    [verifier EXCEPT !.index = @ + length]

\* VerifierChannel: the next `length` bytes of the proof are consumed and
\* absorbed as they are read.
read_bytes(verifier, stream, length) ==
    LET bytes == SubSeq(stream, verifier.index + 1, verifier.index + length)
    IN  [index |-> verifier.index + length,
         sponge |-> Absorb(verifier.sponge, bytes)]

InitChannel ==
    chan = [phase |-> "run",
            prover |-> [proof |-> <<>>, sponge |-> NewSponge],
            verifier |-> [index |-> 0, sponge |-> NewSponge],
            script |-> <<>>,
            prover_random |-> <<>>,
            verifier_random |-> <<>>,
            replayed |-> 0]

\* The prover writes bytes.
ProverWrite ==
    /\ chan.phase = "run"
    /\ Len(chan.script) < MaxChannelOps
    /\ \E bytes \in ByteStrings :
          LET prover == write_bytes(chan.prover, bytes)
          IN  chan' = [chan EXCEPT
                         !.prover = prover,
                         !.script = Append(@, [kind |-> "write",
                                                length |-> Len(bytes),
                                                sponge |-> prover.sponge])]
    /\ UNCHANGED <<merkleVars, componentVars, pedersenVars, indexVars>>

\* The prover draws a challenge: get_random.
ProverRandom ==
    /\ chan.phase = "run"
    /\ Len(chan.script) < MaxChannelOps
    /\ LET sponge == Squeezed(chan.prover.sponge)
       IN  chan' = [chan EXCEPT
                      !.prover.sponge = sponge,
                      !.prover_random = Append(@, SqueezedValue(chan.prover.sponge)),
                      !.script = Append(@, [kind |-> "random",
                                             length |-> 0,
                                             sponge |-> sponge])]
    /\ UNCHANGED <<merkleVars, componentVars, pedersenVars, indexVars>>

\* The verifier reads what the prover wrote at this place of the proof.
VerifierRead ==
    /\ chan.phase = "run"
    /\ chan.replayed < Len(chan.script)
    /\ chan.script[chan.replayed + 1].kind = "write"
    /\ chan' = [chan EXCEPT
                  !.verifier = read_bytes(chan.verifier, chan.prover.proof,
                                          chan.script[chan.replayed + 1].length),
                  !.replayed = @ + 1]
    /\ UNCHANGED <<merkleVars, componentVars, pedersenVars, indexVars>>

\* The verifier draws the challenge the prover drew at this place.
VerifierRandom ==
    /\ chan.phase = "run"
    /\ chan.replayed < Len(chan.script)
    /\ chan.script[chan.replayed + 1].kind = "random"
    /\ chan' = [chan EXCEPT
                  !.verifier.sponge = Squeezed(chan.verifier.sponge),
                  !.verifier_random = Append(@, SqueezedValue(chan.verifier.sponge)),
                  !.replayed = @ + 1]
    /\ UNCHANGED <<merkleVars, componentVars, pedersenVars, indexVars>>

NextChannel == ProverWrite \/ ProverRandom \/ VerifierRead \/ VerifierRandom

\* C17: after every number of writes/reads and squeezes the verifier has
\* replayed, its sponge is the sponge the prover had after as many, every
\* challenge it has drawn is the prover's challenge at the same position,
\* and it has consumed the bytes the prover had written by then.
C17_TranscriptDeterminism ==
    chan.phase = "run" =>
        /\ chan.verifier.sponge =
              (IF chan.replayed = 0 THEN NewSponge
               ELSE chan.script[chan.replayed].sponge)
        /\ Len(chan.verifier_random) <= Len(chan.prover_random)
        /\ \A k \in 1..Len(chan.verifier_random) :
              chan.verifier_random[k] = chan.prover_random[k]
        /\ chan.replayed = Len(chan.script) =>
              /\ chan.verifier.sponge = chan.prover.sponge
              /\ chan.verifier.index = Len(chan.prover.proof)
              /\ chan.verifier_random = chan.prover_random

\* The verifier has replayed a write, a challenge, a write and a challenge.
C17_Witness ==
    /\ chan.phase = "run"
    /\ chan.replayed = Len(chan.script)
    /\ chan.replayed >= 3
    /\ chan.verifier.index >= 2
    /\ Len(chan.verifier_random) >= 1
    /\ chan.script[1].kind = "write"
    /\ chan.script[chan.replayed].kind = "random"

----------------------------------------------------------------------------
(* Further properties of the Merkle layer *)

\* verify was called with the root and the depth of the tree built over
\* `leaves`, and returned true.
AcceptedForTree ==
    /\ phase = "done"
    /\ result.outcome = "accept"
    /\ tree # <<>>
    /\ root = At(tree, 1)
    /\ depth = TrailingZeros(Len(leaves))

\* C18: when verify accepts for the root of the tree over `leaves`, every
\* (i, v) of values has i among the leaves and the hash of v is the hash of
\* leaf i, whatever the decommitment.
C18_Binding ==
    AcceptedForTree =>
        \A k \in 1..Len(values) :
            /\ values[k][1] < Len(leaves)
            /\ LeafHash(values[k][2]) = LeafHash(At(leaves, values[k][1]))

\* C19: on every run of verify that returns, the assertions it passed
\* held: all of the decommitment was consumed when the queue was down to
\* node 1 (line 235), and every layer used up its slice (line 276).
C19_AssertionsHold ==
    (phase = "done" /\ result.outcome \in {"accept", "reject"}) =>
        /\ result.layers
        /\ result.consumed = Len(decommitment)
        /\ result.asserts

\* The layer of a node: 0 for the root, log2(N) for the leaves.
RECURSIVE LayerOf(_)
LayerOf(node) == IF node <= 1 THEN 0 ELSE 1 + LayerOf(node \div 2)

\* The nodes of S from layer d up to the layer below the root, every layer
\* left to right.
RECURSIVE LayerOrder(_, _)
LayerOrder(S, d) ==
    IF d < 1 THEN <<>>
    ELSE SortedSeq({node \in S : LayerOf(node) = d}) \o LayerOrder(S, d - 1)

\* The positions of a layer's queue that are not part of a pair, in the
\* order the while loop of lines 251-275 meets them.
Unpaired(queue, pairs) ==
    SelectSeq([k \in 1..Len(queue) |-> k - 1],
              LAMBDA index : \A j \in 1..Len(pairs) :
                                 index # pairs[j] /\ index # pairs[j] + 1)

\* What verify reads from the decommitment, in the order it reads: `at` is
\* the place in the decommitment, `node` the node whose hash the read is
\* taken for (the sibling of the queue entry), `layer` the layer of the
\* queue.  Lines 239-277, without the hashing.
RECURSIVE VerifyReads(_, _, _)
VerifyReads(queue, consumed, dec) ==
    IF queue = <<>> \/ (Len(queue) = 1 /\ At(queue, 0).index = 1)
    THEN <<>>
    ELSE LET pairs == count_pairs(queue)
             need == Len(queue) - 2 * Len(pairs)
             single == Unpaired(queue, pairs)
         IN  IF consumed >= Len(dec) \/ consumed + need > Len(dec)
             THEN <<>>
             ELSE LET row == VerifyRow(queue, pairs, 0, 0,
                                       Reverse(Slice(dec, consumed, consumed + need)), <<>>)
                      reads == [j \in 1..need |->
                                  [at |-> consumed + need - j,
                                   node |-> SiblingOf(At(queue, single[j]).index),
                                   layer |-> LayerOf(At(queue, single[j]).index)]]
                  IN  reads \o VerifyReads(row.new_queue, consumed + need, dec)

\* C20: the decommitment of proof lists the hashes of the needed nodes from
\* the leaf layer up to the layer below the root, every layer from left to
\* right (at the leaf layer this is the order of the requested indices);
\* verify, given the proof, reads layer by layer in this order: each read
\* takes the hash proof put there for that very node, and a read for a
\* deeper layer comes earlier and from an earlier place.
C20_DecommitmentOrder ==
    (Honest /\ indices # <<>>) =>
        LET n == Len(leaves)
            walk == ProofWalk(tree, indices, leaves)
            reads == VerifyReads(LeafQueue(<<>>, 0, values, Len(values), depth,
                                           decommitment), 0, decommitment)
        IN  /\ walk.nodes = LayerOrder(NeededNodes(indices, n), TrailingZeros(n))
            /\ \A k \in 1..Len(walk.nodes) :
                  decommitment[k] = SubtreeHash(leaves, n, walk.nodes[k])
            /\ Len(reads) = Len(decommitment)
            /\ \A k \in 1..Len(reads) :
                  /\ walk.nodes[reads[k].at + 1] = reads[k].node
                  /\ LayerOf(walk.nodes[reads[k].at + 1]) = reads[k].layer
            /\ \A a, b \in 1..Len(reads) :
                  reads[a].layer > reads[b].layer => (a < b /\ reads[a].at < reads[b].at)

----------------------------------------------------------------------------
(* The index of a node of a balanced binary tree: nodes are numbered in     *)
(* breadth-first order from the root, which is 0.  An Index is its usize.  *)
(* A usize the arithmetic has wrapped around is written as the negative    *)
(* number it is congruent to: -d stands for 2^64 - d.                      *)

\* Trees of the index session have the depths 0 .. MaxIndexDepth.
MaxIndexDepth == 4
\* At most MaxMoves steps from one index to another are taken in a row.
MaxMoves == 2

\* The builds: arithmetic overflow panics with debug assertions and wraps
\* without them.
Builds == {"debug", "release"}

IndexOk(v) == [panics |-> FALSE, value |-> v]

IndexPanic(why) == [panics |-> TRUE, why |-> why]

None == [some |-> FALSE]

Some(v) == [some |-> TRUE, value |-> v]

\* a < b for two usize
UsizeLess(a, b) == IF (a < 0) = (b < 0) THEN a < b ELSE b < 0

\* usize::next_power_of_two: the smallest power of two that is at least n
next_power_of_two(n) ==
    Pow2(CHOOSE k \in 0..30 : Pow2(k) >= n /\ \A l \in 0..(k - 1) : Pow2(l) < n)

from_depth_offset(d, o) ==
    IF ~UsizeLess(o, Pow2(d))
    THEN IndexPanic("assertion failed: offset < 1usize << depth")
    ELSE IndexOk(Pow2(d) - 1 + o)

index_of(i) == i

depth_of(i) == TrailingZeros(next_power_of_two(i + 2)) - 1

offset_of(i, build) ==
    LET a == i + 1
        b == next_power_of_two(i + 1)
    IN  IF a < b /\ build = "debug"
        THEN IndexPanic("attempt to subtract with overflow")
        ELSE IndexOk(a - b)

is_root(i) == i = 0

is_left(i) == i % 2 = 1

is_right(i) == i # 0 /\ i % 2 = 0

is_left_most(i) == IsPowerOfTwo(i + 1)

is_right_most(i) == IsPowerOfTwo(i + 2)

\* A parent that does not step back before halving.
ParentOneIndexed(i) == IF is_root(i) THEN None ELSE Some(i \div 2)

parent(i) == IF is_root(i) THEN None ELSE Some((i - 1) \div 2)

\* A sibling that is always the next node.
SiblingAlwaysNext(i) == IF is_root(i) THEN None ELSE Some(i + 1)

sibling(i) ==
    IF is_root(i) THEN None
    ELSE IF is_left(i) THEN Some(i + 1)
    ELSE Some(i - 1)

left_neighbor(i) == IF is_left_most(i) THEN None ELSE Some(i - 1)

\* A right neighbour that does not stop at the end of the layer.
RightNeighborUnchecked(i) == Some(i + 1)

right_neighbor(i) == IF is_right_most(i) THEN None ELSE Some(i + 1)

left_child(i) == 2 * i + 1

right_child(i) == 2 * i + 2

\* from_depth_offset(i.depth(), i.offset())
RoundTrip(i, build) ==
    LET o == offset_of(i, build)
    IN  IF o.panics THEN o ELSE from_depth_offset(depth_of(i), o.value)

(* The numbering of merkle.rs: the root is node 1, node 0 is not used.     *)

\* verify: queue[index].0 / 2
MerkleParent(k) == k \div 2

\* make_tree_direct: tree[i] is the hash of tree[2 * i] and tree[2 * i + 1]
MerkleLeftChild(k) == 2 * k

MerkleRightChild(k) == 2 * k + 1

\* verify: queue[index].0 % 2 == 0 has its hash on the left of the pair
MerkleIsLeft(k) == k % 2 = 0

\* proof: the node paired with k, k + 1 when k is even and k - 1 when odd
MerkleSibling(k) == IF k % 2 = 0 THEN k + 1 ELSE k - 1

(* The index session: an index is made from a depth and an offset, its     *)
(* methods are called, and the session moves along the tree.               *)

InitIndexIdle == nav = [phase |-> "idle"]

InitIndex ==
    \E d \in 0..MaxIndexDepth, build \in Builds :
        \E o \in 0..(Pow2(d) - 1) :
            nav = [phase |-> "run",
                   build |-> build,
                   index |-> from_depth_offset(d, o).value,
                   made |-> <<d, o>>,
                   call |-> [name |-> "none"],
                   moves |-> 0]

\* What a call leaves: its name, the index it was called on, how that index
\* was made (if the session has not moved since) and what it returned.
IndexCall(name, returned) ==
    [name |-> name, of |-> nav.index, made |-> nav.made, result |-> returned]

Asked(name, returned) ==
    /\ nav.phase = "run"
    /\ nav' = [nav EXCEPT !.call = IndexCall(name, returned)]
    /\ UNCHANGED <<merkleVars, componentVars, pedersenVars, channelVars>>

\* The session goes to the index a call returned, if it returned one.
Moved(name, returned) ==
    /\ nav.phase = "run"
    /\ nav.moves < MaxMoves
    /\ nav' = [nav EXCEPT
                 !.call = IndexCall(name, returned),
                 !.index = IF returned.some THEN returned.value ELSE @,
                 !.made = IF returned.some THEN <<>> ELSE @,
                 !.moves = @ + 1]
    /\ UNCHANGED <<merkleVars, componentVars, pedersenVars, channelVars>>

FromDepthOffset ==
    /\ nav.phase = "run"
    /\ nav.moves < MaxMoves
    /\ \E d \in 0..MaxIndexDepth : \E o \in 0..Pow2(d) :
          LET made == from_depth_offset(d, o)
          IN  nav' = [nav EXCEPT
                        !.call = [name |-> "from_depth_offset", depth |-> d,
                                  offset |-> o, result |-> made],
                        !.index = IF made.panics THEN @ ELSE made.value,
                        !.made = IF made.panics THEN @ ELSE <<d, o>>,
                        !.moves = @ + 1]
    /\ UNCHANGED <<merkleVars, componentVars, pedersenVars, channelVars>>

IndexOf == nav.phase = "run" /\ Asked("index", index_of(nav.index))

DepthOf == nav.phase = "run" /\ Asked("depth", depth_of(nav.index))

OffsetOf == nav.phase = "run" /\ Asked("offset", offset_of(nav.index, nav.build))

DepthOffsetRoundTrip ==
    nav.phase = "run" /\ Asked("round_trip", RoundTrip(nav.index, nav.build))

Parent == nav.phase = "run" /\ Moved("parent", parent(nav.index))

Sibling == nav.phase = "run" /\ Moved("sibling", sibling(nav.index))

LeftNeighbor == nav.phase = "run" /\ Moved("left_neighbor", left_neighbor(nav.index))

RightNeighbor == nav.phase = "run" /\ Moved("right_neighbor", right_neighbor(nav.index))

LeftChild ==
    /\ nav.phase = "run"
    /\ depth_of(nav.index) < MaxIndexDepth
    /\ Moved("left_child", Some(left_child(nav.index)))

RightChild ==
    /\ nav.phase = "run"
    /\ depth_of(nav.index) < MaxIndexDepth
    /\ Moved("right_child", Some(right_child(nav.index)))

NextIndex ==
    \/ FromDepthOffset
    \/ IndexOf
    \/ DepthOf
    \/ OffsetOf
    \/ DepthOffsetRoundTrip
    \/ Parent
    \/ Sibling
    \/ LeftNeighbor
    \/ RightNeighbor
    \/ LeftChild
    \/ RightChild

(* Further properties *)

\* C21: for the leaves of every tree built, make_tree_direct and
\* make_tree_threaded return vectors of as many hashes as there are leaves
\* that are equal at every index.
C21_DirectEqualsThreaded ==
    phase = "built" =>
        LET direct == make_tree_direct(leaves)
            threaded == make_tree_threaded(leaves)
        IN  /\ Len(direct) = Len(leaves)
            /\ Len(threaded) = Len(leaves)
            /\ \A k \in 0..(Len(leaves) - 1) : At(direct, k) = At(threaded, k)

\* C22: compose_vertical returns a component only for inputs with the same
\* constraints: whenever it has returned, the constraints of its two
\* inputs were equal, not just equal in number.
C22_ComposeVerticalShapes ==
    Called("compose_vertical") => compA.constraints = compB.constraints

\* C23: permute_columns returns a component only for a permutation of the
\* columns: the argument has one entry for every column, every entry is a
\* column, no entry is repeated, and so every column of the input is a
\* column of the result.
C23_PermutationValidated ==
    Called("permute_columns") =>
        /\ IsPermutation(call.permutation, compA.cols)
        /\ \A j \in 0..(compA.cols - 1) : \E l \in 0..(comp.cols - 1) :
              \A i \in 0..(compA.rows - 1) : comp.trace[<<i, l>>] = compA.trace[<<i, j>>]

\* The sum eval_c_direct has built after its first `upto` rounds when every
\* term is weighted by its coefficient and by its second coefficient times
\* x to the adjustment of the constraint's own degrees.
RECURSIVE WeightedSum(_, _, _, _, _)
WeightedSum(tables, parts, coefficients, x, upto) ==
    IF upto = 0 THEN 0
    ELSE PAdd(WeightedSum(tables, parts, coefficients, x, upto - 1),
              PMul(DirectValue(tables, upto - 1),
                   PAdd(At(coefficients, 2 * (upto - 1)),
                        PMul(At(coefficients, 2 * (upto - 1) + 1),
                             PPow(x, At(parts, upto - 1).adjustment)))))

\* C24: in eval_c_direct, for each of the 29 constraints, the exponent
\* that adjustment_indices selects is 2 * trace_length - 1 minus the degree
\* of the constraint (the degree of its base plus that of its numerator
\* minus that of its denominator), it is not negative, and what the loop
\* has added for the constraint is its value times
\* coefficients[2i] + coefficients[2i+1] * x^adjustment.  The adjustment
\* of a part is ConstraintAdjustment of the entry of the Constraint list:
\* 2 * trace_length - 1 - (BaseDegree + SparseDegree of the numerator
\* - SparseDegree of the denominator).
C24_UniformDegree ==
    (/\ ped.phase = "run"
     /\ ped.public_input = STARKWARE_PUBLIC_INPUT
     /\ ped.direct # <<>>
     /\ ped.parts # <<>>) =>
        /\ Len(adjustment_indices) = NumConstraints
        /\ \A k \in 0..(NumConstraints - 1) :
              LET adjustment == At(DirectAdjustmentDegrees, At(adjustment_indices, k))
              IN  /\ adjustment = At(ped.parts, k).adjustment
                  /\ adjustment >= 0
        /\ ped.result = WeightedSum(ped.direct[1], ped.parts, ped.coefficients,
                                    ped.x, ped.i)

\* eval_c_direct has finished its loop with coefficients that are all
\* different, the adjustments of the Constraint list are known, the path
\* constraint is lifted by 4 and the root constraint by 1025.
C24_Witness ==
    /\ ped.phase = "run"
    /\ ped.public_input = STARKWARE_PUBLIC_INPUT
    /\ ped.direct # <<>>
    /\ ped.parts # <<>>
    /\ ped.i = NumConstraints
    /\ ped.coefficients[1] # ped.coefficients[2]
    /\ At(ped.parts, 9).adjustment = 1025
    /\ At(ped.parts, 10).adjustment = 4
    /\ ped.result # 0

\* C25: an index made by from_depth_offset(d, o) with o < 2^d has the
\* index 2^d - 1 + o, the depth d and the offset o, and for every index i
\* from_depth_offset(i.depth(), i.offset()) is i again.
C25_DepthOffsetRoundTrip ==
    nav.phase = "run" =>
        /\ (nav.call.name = "from_depth_offset"
              /\ nav.call.offset < Pow2(nav.call.depth)) =>
              /\ ~nav.call.result.panics
              /\ index_of(nav.call.result.value)
                    = Pow2(nav.call.depth) - 1 + nav.call.offset
        /\ (nav.call.name = "index" /\ nav.call.made # <<>>) =>
              nav.call.result = Pow2(nav.call.made[1]) - 1 + nav.call.made[2]
        /\ (nav.call.name = "depth" /\ nav.call.made # <<>>) =>
              nav.call.result = nav.call.made[1]
        /\ (nav.call.name = "offset" /\ nav.call.made # <<>>) =>
              nav.call.result = IndexOk(nav.call.made[2])
        /\ nav.call.name = "round_trip" =>
              nav.call.result = IndexOk(nav.call.of)

\* The node of the numbering of merkle.rs that stands for an index, i + 1,
\* and for no index, the unused node 0.
OneIndexed(opt) == IF opt.some THEN opt.value + 1 ELSE 0

\* C26: with k = i + 1 the methods of Index are the arithmetic of the
\* numbering of merkle.rs: parent is k div 2, left_child and right_child
\* are 2k and 2k + 1, sibling is k xor 1, is_left is k being even and
\* is_right is k being odd and greater than 1; this holds for the index the
\* session is at and for what its last call returned.
C26_NumberingsAgree ==
    nav.phase = "run" =>
        LET i == nav.index
            k == nav.index + 1
        IN  /\ OneIndexed(parent(i)) = MerkleParent(k)
            /\ left_child(i) + 1 = MerkleLeftChild(k)
            /\ right_child(i) + 1 = MerkleRightChild(k)
            /\ OneIndexed(sibling(i)) = MerkleSibling(k)
            /\ is_left(i) <=> MerkleIsLeft(k)
            /\ is_right(i) <=> (~MerkleIsLeft(k) /\ k > 1)
            /\ nav.call.name = "parent" =>
                  OneIndexed(nav.call.result) = MerkleParent(nav.call.of + 1)
            /\ nav.call.name = "sibling" =>
                  OneIndexed(nav.call.result) = MerkleSibling(nav.call.of + 1)
            /\ nav.call.name = "left_child" =>
                  OneIndexed(nav.call.result) = MerkleLeftChild(nav.call.of + 1)
            /\ nav.call.name = "right_child" =>
                  OneIndexed(nav.call.result) = MerkleRightChild(nav.call.of + 1)

\* parent was called on a right node two layers below the root and
\* returned a left node, which the session is at.
C26_Witness ==
    /\ nav.phase = "run"
    /\ nav.call.name = "parent"
    /\ is_right(nav.call.of)
    /\ nav.call.of + 1 >= 5
    /\ nav.call.result.some
    /\ nav.index = nav.call.result.value
    /\ is_left(nav.index)

\* C27: for every index i the children of i have i as their parent, the
\* left child is a left node, the right child a right node and the sibling
\* of the left child is the right child; the sibling of a node other than
\* the root is another node with the same parent whose sibling is the node
\* itself; the root has no parent and no sibling; and every index is
\* exactly one of root, left and right.
C27_Navigation ==
    nav.phase = "run" =>
        LET i == nav.index
        IN  /\ parent(left_child(i)) = Some(i)
            /\ parent(right_child(i)) = Some(i)
            /\ is_left(left_child(i))
            /\ is_right(right_child(i))
            /\ sibling(left_child(i)) = Some(right_child(i))
            /\ ~is_root(i) =>
                  /\ sibling(i).some
                  /\ sibling(i).value # i
                  /\ parent(sibling(i).value) = parent(i)
                  /\ sibling(sibling(i).value) = Some(i)
            /\ is_root(i) => (parent(i) = None /\ sibling(i) = None)
            /\ \E only \in {"root", "left", "right"} :
                  /\ is_root(i) <=> only = "root"
                  /\ is_left(i) <=> only = "left"
                  /\ is_right(i) <=> only = "right"
            /\ nav.call.name \in {"left_child", "right_child"} =>
                  parent(i) = Some(nav.call.of)
            /\ (nav.call.name = "sibling" /\ nav.call.result.some) =>
                  (i # nav.call.of /\ sibling(i) = Some(nav.call.of))

\* sibling was called on a right node and the session is at the left node
\* it returned, after an earlier move.
C27_Witness ==
    /\ nav.phase = "run"
    /\ nav.call.name = "sibling"
    /\ is_right(nav.call.of)
    /\ nav.call.result = Some(nav.index)
    /\ is_left(nav.index)
    /\ nav.moves = 2

\* C30: left_neighbor of the node of depth d and offset o is None exactly
\* when the node is the left-most of its layer, which is when o = 0, and is
\* otherwise the node of depth d and offset o - 1; right_neighbor is None
\* exactly when the node is the right-most of its layer, o = 2^d - 1, and is
\* otherwise the node of depth d and offset o + 1; and the left neighbour of
\* a right neighbour is the node itself.
C30_NeighborsInLayer ==
    (/\ nav.phase = "run"
     /\ nav.call.name \in {"left_neighbor", "right_neighbor"}
     /\ nav.call.made # <<>>) =>
        LET i == nav.call.of
            d == nav.call.made[1]
            o == nav.call.made[2]
            in_layer(p) == from_depth_offset(d, p).value
            left == IF nav.call.name = "left_neighbor"
                    THEN nav.call.result ELSE left_neighbor(i)
            right == IF nav.call.name = "right_neighbor"
                     THEN nav.call.result ELSE right_neighbor(i)
        IN  /\ is_left_most(i) <=> o = 0
            /\ is_right_most(i) <=> o = Pow2(d) - 1
            /\ left = IF o = 0 THEN None ELSE Some(in_layer(o - 1))
            /\ right = IF o = Pow2(d) - 1 THEN None ELSE Some(in_layer(o + 1))
            /\ left.some =>
                  /\ depth_of(left.value) = d
                  /\ right_neighbor(left.value) = Some(i)
            /\ right.some =>
                  /\ depth_of(right.value) = d
                  /\ left_neighbor(right.value) = Some(i)

\* right_neighbor was called on a node that is neither the left-most nor
\* the right-most of its layer, and the session is at the node it returned.
C30_Witness ==
    /\ nav.phase = "run"
    /\ nav.call.name = "right_neighbor"
    /\ nav.call.made # <<>>
    /\ nav.call.made[2] > 0
    /\ nav.call.result = Some(nav.index)
    /\ nav.index = nav.call.of + 1
    /\ left_neighbor(nav.index) = Some(nav.call.of)

\* C28: when fold has returned (the number of columns of its input is
\* even), the result has twice the rows and half the columns, every cell of
\* the result is the place (2 * i + j mod 2, j div 2) of exactly one cell
\* (i, j) of the input, and it holds the value of that cell.
C28_FoldBijection ==
    Called("fold") =>
        LET place(q) == Transform(FoldAt, q[1], q[2])
        IN  /\ compA.cols % 2 = 0
            /\ comp.rows = 2 * compA.rows
            /\ comp.cols = compA.cols \div 2
            /\ DOMAIN comp.trace = Cells(comp.rows, comp.cols)
            /\ \A q \in Cells(compA.rows, compA.cols) :
                  place(q) \in Cells(comp.rows, comp.cols)
            /\ \A cell \in Cells(comp.rows, comp.cols) :
                  Cardinality({q \in Cells(compA.rows, compA.cols) : place(q) = cell}) = 1
            /\ \A q \in Cells(compA.rows, compA.cols) :
                  comp.trace[place(q)] = compA.trace[q]

\* fold has returned for a trace of two rows and two columns whose four
\* values are all different.
C28_Witness ==
    /\ Called("fold")
    /\ compA.rows = 2
    /\ compA.cols = 2
    /\ Cardinality({compA.trace[q] : q \in Cells(2, 2)}) = 4
    /\ comp.rows = 4
    /\ comp.trace[<<1, 0>>] = compA.trace[<<0, 1>>]

\* Two components have the same trace cells and the same label rows.
SameCellsAndLabelRows(p, q) ==
    /\ p.rows = q.rows
    /\ p.cols = q.cols
    /\ p.trace = q.trace
    /\ DOMAIN p.labels = DOMAIN q.labels
    /\ \A k \in DOMAIN p.labels : p.labels[k].row = q.labels[k].row

\* C29: when shift(c, a) has returned for a component c of more than one
\* row, shifting the result by b gives the trace cells and label rows of
\* shift(c, a + b), shifting it by -a gives those of c, and shift(c, a + rows)
\* gives those of shift(c, a).
C29_ShiftRotation ==
    (Called("shift") /\ compA.rows > 1) =>
        /\ \A b \in ShiftAmounts \cup {0 - call.amount, 1} :
              SameCellsAndLabelRows(shift(comp, b), shift(compA, call.amount + b))
        /\ SameCellsAndLabelRows(shift(comp, 0 - call.amount), compA)
        /\ SameCellsAndLabelRows(shift(compA, call.amount + compA.rows), comp)

\* shift has returned for a component of four rows with labels, and it has
\* moved the cells.
C29_Witness ==
    /\ Called("shift")
    /\ compA.rows = 4
    /\ DOMAIN compA.labels # {}
    /\ comp.trace # compA.trace
    /\ \E k \in DOMAIN compA.labels : comp.labels[k].row # compA.labels[k].row

----------------------------------------------------------------------------
(* Specifications: one session runs while the other stays in its initial   *)
(* state.                                                                  *)

InitMerkleSession ==
    InitMerkle /\ InitComponentIdle /\ InitPedersenIdle /\ InitChannelIdle /\ InitIndexIdle

SpecMerkle == InitMerkleSession /\ [][NextMerkle]_vars

InitComponentSession ==
    InitComponent /\ InitMerkle /\ InitPedersenIdle /\ InitChannelIdle /\ InitIndexIdle

SpecComponent == InitComponentSession /\ [][NextComponent]_vars

InitPedersenSession ==
    InitPedersen /\ InitMerkle /\ InitComponentIdle /\ InitChannelIdle /\ InitIndexIdle

SpecPedersen == InitPedersenSession /\ [][NextPedersen]_vars

InitChannelSession ==
    InitChannel /\ InitMerkle /\ InitComponentIdle /\ InitPedersenIdle /\ InitIndexIdle

SpecChannel == InitChannelSession /\ [][NextChannel]_vars

InitIndexSession ==
    /\ InitIndex /\ InitMerkle /\ InitComponentIdle /\ InitPedersenIdle
    /\ InitChannelIdle

SpecIndex == InitIndexSession /\ [][NextIndex]_vars

=============================================================================
